---- MODULE Spec2Model ----
(***************************************************************************)
(* The safety policy engine of fusabi-stdlib-ext (src/src/safety.rs), the  *)
(* error values it returns (src/src/error.rs), the adapters that consult   *)
(* it (fs.rs, env.rs, net.rs, process.rs) and the registration of the      *)
(* modules (config.rs, registry.rs).                                       *)
(*                                                                         *)
(* Strings are sequences of one-character strings, so that prefix, suffix  *)
(* and letter-case operations are computed as the code computes them.      *)
(***************************************************************************)
EXTENDS Integers, Sequences, FiniteSets, TLC

VARIABLES
    paths,      \* a PathAllowlist value being built and checked
    hosts,      \* a HostAllowlist value being built and checked
    cfg,        \* a SafetyConfig value being built and checked
    last,       \* the call in flight: NoCall, a check [op, arg, res], or
                \* an adapter call [op, arg, timeout, pc, effect, effective, res]
    features,   \* the cargo features the crate is built with
    config,     \* a StdlibConfig value being built
    stdlib,     \* the StdlibRegistry: NoStdlib, or [created, config]
    registry,   \* the HostRegistry: the <<module, name>> registered
    threads,    \* per thread, the call it is running: Idle, a check on the
                \* shared SafetyConfig, or a counter_inc on the METRICS registry
    metrics,    \* the MetricsRegistry: its counters and the state of their lock
    issued      \* per counter name, the sum of the values passed to counter_inc

\* The variables of the module registration.
stdlibvars == <<features, config, stdlib, registry>>

\* The variables of the calls that run concurrently.
sharedvars == <<threads, metrics, issued>>

vars == <<paths, hosts, cfg, last, stdlibvars, sharedvars>>

(***************************************************************************)
(* Bounds of the model.                                                    *)
(***************************************************************************)
\* Longest checked path, in segments between separators.
MaxSegs == 2
\* Longest checked host name, in characters.
MaxHostLen == 3
\* The threads that run calls concurrently.
NumThreads == 2
\* The largest sum of the values added to one counter.
MaxCounter == 3

(***************************************************************************)
(* Strings.                                                                *)
(***************************************************************************)
\* char::to_lowercase on the ASCII letters; every other character is kept.
LowerOf ==
    [A |-> "a", B |-> "b", C |-> "c", D |-> "d", E |-> "e", F |-> "f",
     G |-> "g", H |-> "h", I |-> "i", J |-> "j", K |-> "k", L |-> "l",
     M |-> "m", N |-> "n", O |-> "o", P |-> "p", Q |-> "q", R |-> "r",
     S |-> "s", T |-> "t", U |-> "u", V |-> "v", W |-> "w", X |-> "x",
     Y |-> "y", Z |-> "z"]
UpperLetters == DOMAIN LowerOf

LowerChar(c) == IF c \in UpperLetters THEN LowerOf[c] ELSE c

\* str::to_lowercase
to_lowercase(s) == [i \in 1..Len(s) |-> LowerChar(s[i])]

\* str::starts_with
str_starts_with(s, pre) ==
    /\ Len(pre) <= Len(s)
    /\ SubSeq(s, 1, Len(pre)) = pre

\* str::ends_with
str_ends_with(s, suf) ==
    /\ Len(suf) <= Len(s)
    /\ SubSeq(s, Len(s) - Len(suf) + 1, Len(s)) = suf

(***************************************************************************)
(* Results and errors (src/src/error.rs).                                  *)
(***************************************************************************)
Ok == [ok |-> TRUE]
Err(e) == [ok |-> FALSE, err |-> e]

\* Error::not_permitted(msg): the message is a list of string pieces, the
\* fixed text first and then what format! appends to it.
not_permitted(msg) == [kind |-> "NotPermitted", payload |-> msg]
\* Error::path_not_allowed(path)
path_not_allowed(path) == [kind |-> "PathNotAllowed", payload |-> path]
\* Error::host_not_allowed(host)
host_not_allowed(host) == [kind |-> "HostNotAllowed", payload |-> host]

\* Error::is_safety_error
is_safety_error(e) ==
    e.kind \in {"NotPermitted", "PathNotAllowed", "HostNotAllowed"}

NoCall == [op |-> "none"]

(***************************************************************************)
(* Paths: std::path::Path as safety.rs uses it.                            *)
(***************************************************************************)
RootDir == [k |-> "RootDir", n |-> <<>>]
CurDir == [k |-> "CurDir", n |-> <<>>]
ParentDir == [k |-> "ParentDir", n |-> <<>>]
Normal(name) == [k |-> "Normal", n |-> name]

\* The pieces of s between separators, empty pieces included.
RECURSIVE SplitSep(_, _, _)
SplitSep(s, i, cur) ==
    IF i > Len(s) THEN <<cur>>
    ELSE IF s[i] = "/" THEN <<cur>> \o SplitSep(s, i + 1, <<>>)
    ELSE SplitSep(s, i + 1, Append(cur, s[i]))

\* Path::components on Unix: a leading separator is the root; empty pieces
\* and "." are dropped, except a "." that starts a relative path; ".." is
\* kept as it is (nothing is resolved).
RECURSIVE ComponentsFrom(_, _, _)
ComponentsFrom(raw, i, has_root) ==
    IF i > Len(raw) THEN <<>>
    ELSE LET piece == raw[i]
             here == IF piece = <<>> THEN <<>>
                     ELSE IF piece = <<".">>
                          THEN IF i = 1 /\ ~has_root THEN <<CurDir>> ELSE <<>>
                     ELSE IF piece = <<".", ".">> THEN <<ParentDir>>
                     ELSE <<Normal(piece)>>
         IN  here \o ComponentsFrom(raw, i + 1, has_root)

Components(s) ==
    LET has_root == Len(s) > 0 /\ s[1] = "/"
    IN  (IF has_root THEN <<RootDir>> ELSE <<>>)
            \o ComponentsFrom(SplitSep(s, 1, <<>>), 1, has_root)

\* PathBuf::from(path) as an element of a HashSet<PathBuf>: two PathBufs are
\* equal (and hash alike) when their components are, so an element is its
\* component sequence.
PathBuf(s) == Components(s)

\* std's iter_after: walk both component sequences in step.
RECURSIVE iter_after(_, _, _)
iter_after(comps, prefix, i) ==
    IF i > Len(prefix) THEN TRUE
    ELSE IF i > Len(comps) THEN FALSE
    ELSE IF comps[i] = prefix[i] THEN iter_after(comps, prefix, i + 1)
    ELSE FALSE

\* A deliberately wrong starts_with: the characters of the base are a prefix
\* of the characters of the path (component boundaries ignored).
RECURSIVE FlatChars(_, _)
FlatChars(comps, i) ==
    IF i > Len(comps) THEN <<>>
    ELSE (IF comps[i].k = "RootDir" THEN <<>>
          ELSE IF i > 1 /\ comps[i - 1].k # "RootDir" THEN <<"/">>
          ELSE <<>>)
         \o (IF comps[i].k = "RootDir" THEN <<"/">>
             ELSE IF comps[i].k = "CurDir" THEN <<".">>
             ELSE IF comps[i].k = "ParentDir" THEN <<".", ".">>
             ELSE comps[i].n)
         \o FlatChars(comps, i + 1)

path_starts_with_chars(path, base) ==
    str_starts_with(FlatChars(Components(path), 1), FlatChars(base, 1))

\* A deliberately wrong starts_with: a relative path is taken from the root
\* directory before it is compared.
path_starts_with_rooted(path, base) ==
    iter_after(Components(IF Len(path) > 0 /\ path[1] = "/" THEN path
                          ELSE <<"/">> \o path), base, 1)

\* The components with every ".." resolved against the component before it
\* (the parent of the root is the root; a leading ".." of a relative path
\* stays).
RECURSIVE Resolve(_, _, _)
Resolve(comps, i, acc) ==
    IF i > Len(comps) THEN acc
    ELSE IF comps[i].k = "ParentDir"
         THEN IF Len(acc) > 0 /\ acc[Len(acc)].k = "Normal"
              THEN Resolve(comps, i + 1, SubSeq(acc, 1, Len(acc) - 1))
              ELSE IF Len(acc) > 0 /\ acc[Len(acc)].k = "RootDir"
              THEN Resolve(comps, i + 1, acc)
              ELSE Resolve(comps, i + 1, Append(acc, comps[i]))
    ELSE IF comps[i].k = "CurDir" THEN Resolve(comps, i + 1, acc)
    ELSE Resolve(comps, i + 1, Append(acc, comps[i]))

\* A deliberately wrong starts_with: the ".." components of the path are
\* resolved before it is compared.
path_starts_with_resolved(path, base) ==
    iter_after(Resolve(Components(path), 1, <<>>), base, 1)

\* Path::starts_with(base): base is a stored PathBuf, path the caller's path.
path_starts_with(path, base) == iter_after(Components(path), base, 1)

\* PathAllowlist::none
PathAllowlist_none == [read |-> {}, write |-> {}, deny |-> {}]

\* PathAllowlist::all
PathAllowlist_all ==
    [read |-> {PathBuf(<<"/">>)}, write |-> {PathBuf(<<"/">>)}, deny |-> {}]

\* A deliberately wrong allow_read: allowing a path takes it out of the deny
\* set again (the last call wins).
allow_read_undeny(self, path) ==
    [self EXCEPT !.read = @ \cup {PathBuf(path)}, !.deny = @ \ {PathBuf(path)}]

\* PathAllowlist::allow_read
allow_read(self, path) == [self EXCEPT !.read = @ \cup {PathBuf(path)}]

\* PathAllowlist::allow_write
allow_write(self, path) == [self EXCEPT !.write = @ \cup {PathBuf(path)}]

\* PathAllowlist::allow_rw
allow_rw(self, path) == allow_write(allow_read(self, path), path)

\* PathAllowlist::deny
deny(self, path) == [self EXCEPT !.deny = @ \cup {PathBuf(path)}]

\* PathAllowlist::is_denied
is_denied(self, path) ==
    \E denied \in self.deny : path_starts_with(path, denied)

\* A deliberately wrong can_read: the deny set is not consulted.
can_read_no_deny(self, path) ==
    \E allowed \in self.read : path_starts_with(path, allowed)

\* A deliberately wrong can_read: an empty read set means unrestricted.
can_read_empty_allows(self, path) ==
    IF is_denied(self, path) THEN FALSE
    ELSE \/ self.read = {}
         \/ \E allowed \in self.read : path_starts_with(path, allowed)

\* PathAllowlist::can_read
can_read(self, path) ==
    IF is_denied(self, path) THEN FALSE
    ELSE \E allowed \in self.read : path_starts_with(path, allowed)

\* PathAllowlist::can_write
can_write(self, path) ==
    IF is_denied(self, path) THEN FALSE
    ELSE \E allowed \in self.write : path_starts_with(path, allowed)

\* PathAllowlist::check_read
check_read(self, path) ==
    IF can_read(self, path) THEN Ok ELSE Err(path_not_allowed(path))

\* PathAllowlist::check_write
check_write(self, path) ==
    IF can_write(self, path) THEN Ok ELSE Err(path_not_allowed(path))

(***************************************************************************)
(* Hosts.                                                                  *)
(***************************************************************************)
\* HostAllowlist::none
HostAllowlist_none == [allowed |-> {}, denied |-> {}]

\* HostAllowlist::all
HostAllowlist_all == [allowed |-> {<<"*">>}, denied |-> {}]

\* HostAllowlist::allow
host_allow(self, host) == [self EXCEPT !.allowed = @ \cup {host}]

\* A deliberately wrong deny: the pattern is taken out of the allowed set
\* rather than put into the denied set, so a later allow brings it back.
host_deny_unallow(self, host) == [self EXCEPT !.allowed = @ \ {host}]

\* HostAllowlist::deny
host_deny(self, host) == [self EXCEPT !.denied = @ \cup {host}]

\* A deliberately wrong host_matches: the pattern is compared as configured,
\* without lowercasing it.
host_matches_raw_pattern(host, pattern) ==
    IF pattern = <<"*">> THEN TRUE
    ELSE IF str_starts_with(pattern, <<"*", ".">>)
         THEN \/ str_ends_with(host, SubSeq(pattern, 2, Len(pattern)))
              \/ host = SubSeq(pattern, 3, Len(pattern))
    ELSE host = pattern

\* A deliberately wrong host_matches: a wildcard pattern does not match the
\* bare suffix.
host_matches_no_bare(host, pattern) ==
    LET pat == to_lowercase(pattern)
    IN  IF pat = <<"*">> THEN TRUE
        ELSE IF str_starts_with(pat, <<"*", ".">>)
             THEN str_ends_with(host, SubSeq(pat, 2, Len(pat)))
        ELSE host = pat

\* HostAllowlist::host_matches: host is already lowercased by the caller.
host_matches(host, pattern) ==
    LET pat == to_lowercase(pattern)
    IN  IF pat = <<"*">> THEN TRUE
        ELSE IF str_starts_with(pat, <<"*", ".">>)
             THEN LET suffix == SubSeq(pat, 2, Len(pat))
                  IN  \/ str_ends_with(host, suffix)
                      \/ host = SubSeq(pat, 3, Len(pat))
        ELSE host = pat

\* A deliberately wrong can_access: the allow list is consulted first.
can_access_allow_first(self, host) ==
    LET h == to_lowercase(host)
    IN  IF \E allowed \in self.allowed : host_matches(h, allowed) THEN TRUE
        ELSE FALSE

\* HostAllowlist::can_access: the two loops return at the first match, and
\* the outcome is the same for every iteration order of the sets.
can_access(self, host) ==
    LET h == to_lowercase(host)
    IN  IF \E denied \in self.denied : host_matches(h, denied) THEN FALSE
        ELSE IF \E allowed \in self.allowed : host_matches(h, allowed) THEN TRUE
        ELSE FALSE

\* A deliberately wrong check: the error carries the lowercased host.
host_check_lowered(self, host) ==
    IF can_access(self, host) THEN Ok
    ELSE Err(host_not_allowed(to_lowercase(host)))

\* HostAllowlist::check
host_check(self, host) ==
    IF can_access(self, host) THEN Ok ELSE Err(host_not_allowed(host))

(***************************************************************************)
(* SafetyConfig.                                                           *)
(***************************************************************************)
\* Option<HashSet<String>>
None == [some |-> FALSE, v |-> {}]
Some(set) == [some |-> TRUE, v |-> set]

\* Duration::from_secs values of the presets, in seconds.
DefaultTimeoutSecs == 30
DefaultMaxTimeoutSecs == 300
PermissiveTimeoutSecs == 60
PermissiveMaxTimeoutSecs == 3600
StrictTimeoutSecs == 10
StrictMaxTimeoutSecs == 30

\* The default with PathAllowlist::all() for its paths.
SafetyConfig_default_paths_all ==
    [paths |-> PathAllowlist_all,
     hosts |-> HostAllowlist_none,
     env_vars |-> Some({}),
     allow_process |-> FALSE,
     allowed_commands |-> None,
     default_timeout |-> DefaultTimeoutSecs,
     max_timeout |-> DefaultMaxTimeoutSecs]

\* impl Default for SafetyConfig (and SafetyConfig::new)
SafetyConfig_default ==
    [paths |-> PathAllowlist_none,
     hosts |-> HostAllowlist_none,
     env_vars |-> Some({}),
     allow_process |-> FALSE,
     allowed_commands |-> None,
     default_timeout |-> DefaultTimeoutSecs,
     max_timeout |-> DefaultMaxTimeoutSecs]

\* SafetyConfig::permissive
SafetyConfig_permissive ==
    [paths |-> PathAllowlist_all,
     hosts |-> HostAllowlist_all,
     env_vars |-> None,
     allow_process |-> TRUE,
     allowed_commands |-> None,
     default_timeout |-> PermissiveTimeoutSecs,
     max_timeout |-> PermissiveMaxTimeoutSecs]

\* strict() with env_vars left None (no restriction).
SafetyConfig_strict_env_open ==
    [paths |-> PathAllowlist_none,
     hosts |-> HostAllowlist_none,
     env_vars |-> None,
     allow_process |-> FALSE,
     allowed_commands |-> Some({}),
     default_timeout |-> StrictTimeoutSecs,
     max_timeout |-> StrictMaxTimeoutSecs]

\* SafetyConfig::strict
SafetyConfig_strict ==
    [paths |-> PathAllowlist_none,
     hosts |-> HostAllowlist_none,
     env_vars |-> Some({}),
     allow_process |-> FALSE,
     allowed_commands |-> Some({}),
     default_timeout |-> StrictTimeoutSecs,
     max_timeout |-> StrictMaxTimeoutSecs]

\* SafetyConfig::with_paths
with_paths(self, p) == [self EXCEPT !.paths = p]

\* SafetyConfig::with_hosts
with_hosts(self, h) == [self EXCEPT !.hosts = h]

\* with_env_vars adding the names to the set already configured.
with_env_vars_union(self, names) ==
    [self EXCEPT !.env_vars =
        IF self.env_vars.some THEN Some(self.env_vars.v \cup names)
        ELSE Some(names)]

\* SafetyConfig::with_env_vars
with_env_vars(self, names) == [self EXCEPT !.env_vars = Some(names)]

\* SafetyConfig::allow_all_env
allow_all_env(self) == [self EXCEPT !.env_vars = None]

\* SafetyConfig::with_allow_process
with_allow_process(self, allow) == [self EXCEPT !.allow_process = allow]

\* SafetyConfig::with_allowed_commands
with_allowed_commands(self, commands) ==
    [self EXCEPT !.allowed_commands = Some(commands)]

\* SafetyConfig::with_default_timeout
with_default_timeout(self, timeout) == [self EXCEPT !.default_timeout = timeout]

\* SafetyConfig::with_max_timeout
with_max_timeout(self, timeout) == [self EXCEPT !.max_timeout = timeout]

\* A deliberately wrong can_access_env: names are compared without regard
\* to letter case.
can_access_env_nocase(self, name) ==
    IF ~self.env_vars.some THEN TRUE
    ELSE \E n \in self.env_vars.v : to_lowercase(n) = to_lowercase(name)

\* SafetyConfig::can_access_env
can_access_env(self, name) ==
    IF ~self.env_vars.some THEN TRUE
    ELSE name \in self.env_vars.v

\* The message pieces of the three NotPermitted denials.
MsgEnvDenied == "environment variable access denied: "
MsgProcessOff == "process execution not allowed"
MsgCommandDenied == "command not allowed: "

\* SafetyConfig::check_env
check_env(self, name) ==
    IF can_access_env(self, name) THEN Ok
    ELSE Err(not_permitted(<<MsgEnvDenied, name>>))

\* SafetyConfig::can_execute
can_execute(self, command) ==
    IF ~self.allow_process THEN FALSE
    ELSE IF ~self.allowed_commands.some THEN TRUE
    ELSE command \in self.allowed_commands.v

\* A deliberately wrong check_execute: the allowlist is consulted before the
\* gate.
check_execute_set_first(self, command) ==
    IF self.allowed_commands.some /\ command \notin self.allowed_commands.v
    THEN Err(not_permitted(<<MsgCommandDenied, command>>))
    ELSE IF ~self.allow_process
    THEN Err(not_permitted(<<MsgProcessOff>>))
    ELSE Ok

\* A deliberately wrong check_execute: a missing allowlist allows nothing.
check_execute_none_denies(self, command) ==
    IF ~self.allow_process
    THEN Err(not_permitted(<<MsgProcessOff>>))
    ELSE IF ~self.allowed_commands.some \/ command \notin self.allowed_commands.v
    THEN Err(not_permitted(<<MsgCommandDenied, command>>))
    ELSE Ok

\* SafetyConfig::check_execute
check_execute(self, command) ==
    IF ~self.allow_process
    THEN Err(not_permitted(<<MsgProcessOff>>))
    ELSE IF self.allowed_commands.some /\ command \notin self.allowed_commands.v
    THEN Err(not_permitted(<<MsgCommandDenied, command>>))
    ELSE Ok

\* Duration::max where the code has Duration::min.
clamp_timeout_max(self, timeout) ==
    IF timeout >= self.max_timeout THEN timeout ELSE self.max_timeout

\* SafetyConfig::clamp_timeout (Duration::min)
clamp_timeout(self, timeout) ==
    IF timeout <= self.max_timeout THEN timeout ELSE self.max_timeout

(***************************************************************************)
(* The adapters (src/src/fs.rs, env.rs, net.rs, process.rs).  A call of an *)
(* adapter is a record: the function called (op), its argument (arg), the  *)
(* timeout the caller handed over (timeout), where the call stands (pc:    *)
(* "effect" before the effect, "done" at its return), whether the effect   *)
(* was performed (effect), the timeout the effect runs under (effective)   *)
(* and the result (res).                                                   *)
(***************************************************************************)
\* Option<Duration>
NoDuration == [some |-> FALSE, v |-> 0]
SomeDuration(t) == [some |-> TRUE, v |-> t]

\* The Display text of an Error (#[error("...")]): the fixed text, then the
\* payload.
to_string(e) ==
    LET DisplayText ==
            [NotPermitted |-> "operation not permitted: ",
             PathNotAllowed |-> "path not allowed: ",
             HostNotAllowed |-> "host not allowed: "]
    IN  <<DisplayText[e.kind], e.payload>>

\* fusabi_host::Error::host_function(msg)
host_function(msg) == [kind |-> "HostFunction", payload |-> msg]

\* `check.map_err(|e| host_function(e.to_string()))?` followed by the rest
\* of the adapter: a failed check is the adapter's return value, a check
\* that passed lets the call go on to its effect.
after_check(op, arg, timeout, check) ==
    [op |-> op, arg |-> arg, timeout |-> timeout,
     pc |-> IF check.ok THEN "effect" ELSE "done",
     effect |-> FALSE, effective |-> NoDuration,
     res |-> IF check.ok THEN Ok ELSE Err(host_function(to_string(check.err)))]

\* timeout.map(|t| safety.clamp_timeout(t)).unwrap_or(safety.default_timeout)
effective_timeout_unclamped(safety, timeout) ==
    IF timeout.some THEN timeout.v ELSE safety.default_timeout

effective_timeout(safety, timeout) ==
    IF timeout.some THEN clamp_timeout(safety, timeout.v)
    ELSE safety.default_timeout

\* str::strip_prefix
strip_prefix(s, pre) ==
    IF str_starts_with(s, pre)
    THEN [some |-> TRUE, v |-> SubSeq(s, Len(pre) + 1, Len(s))]
    ELSE [some |-> FALSE, v |-> <<>>]

\* s.split(ch).next(): what comes before the first ch, all of s without one.
RECURSIVE split_next(_, _)
split_next(s, ch) ==
    IF s = <<>> \/ Head(s) = ch THEN <<>>
    ELSE <<Head(s)>> \o split_next(Tail(s), ch)

\* extract_host leaving the port on the host.
extract_host_keep_port(url) ==
    LET https == strip_prefix(url, <<"h", "t", "t", "p", "s", ":", "/", "/">>)
        http == strip_prefix(url, <<"h", "t", "t", "p", ":", "/", "/">>)
        rest == IF https.some THEN https.v
                ELSE IF http.some THEN http.v ELSE url
        host == split_next(rest, "/")
    IN  IF host = <<>> THEN Err(host_function(<<"invalid URL: no host">>))
        ELSE [ok |-> TRUE, v |-> host]

\* net::extract_host
extract_host(url) ==
    LET https == strip_prefix(url, <<"h", "t", "t", "p", "s", ":", "/", "/">>)
        http == strip_prefix(url, <<"h", "t", "t", "p", ":", "/", "/">>)
        rest == IF https.some THEN https.v
                ELSE IF http.some THEN http.v ELSE url
        host == split_next(split_next(rest, "/"), ":")
    IN  IF host = <<>> THEN Err(host_function(<<"invalid URL: no host">>))
        ELSE [ok |-> TRUE, v |-> host]

\* http_get handing an empty host to the host policy when the URL has none.
http_get_unparsed(safety, timeout, url) ==
    LET host == extract_host(url)
    IN  after_check("net.get", url, timeout,
                    host_check(safety.hosts, IF host.ok THEN host.v ELSE <<>>))

\* net::http_get, up to its effect (the request)
http_get(safety, timeout, url) ==
    LET host == extract_host(url)
    IN  IF ~host.ok
        THEN [op |-> "net.get", arg |-> url, timeout |-> timeout,
              pc |-> "done", effect |-> FALSE, effective |-> NoDuration,
              res |-> host]
        ELSE after_check("net.get", url, timeout,
                         host_check(safety.hosts, host.v))

\* net_http::check_request_safety: neither argument is looked at.
check_request_safety(safety, url) == Ok

\* net_http::request on args = <<method, url, ..>>: once the two arguments
\* are found, a mock response of status 200 is returned; no request is made.
request(args) ==
    [op |-> "net_http.request", arg |-> args, timeout |-> NoDuration,
     pc |-> "done", effect |-> FALSE, effective |-> NoDuration,
     res |-> IF Len(args) < 1
             THEN Err(host_function(
                          <<"net_http.request: missing method argument">>))
             ELSE IF Len(args) < 2
             THEN Err(host_function(
                          <<"net_http.request: missing url argument">>))
             ELSE Ok]

\* net::http_post, up to its effect (the request)
http_post(safety, timeout, url) ==
    LET host == extract_host(url)
    IN  IF ~host.ok
        THEN [op |-> "net.post", arg |-> url, timeout |-> timeout,
              pc |-> "done", effect |-> FALSE, effective |-> NoDuration,
              res |-> host]
        ELSE after_check("net.post", url, timeout,
                         host_check(safety.hosts, host.v))

\* process::exec, up to its effect (the execution of the command)
exec(safety, timeout, command) ==
    after_check("process.exec", command, timeout,
                check_execute(safety, command))

\* process::spawn, up to its effect (the spawn): it takes no SafetyConfig
\* and makes no check.
spawn(command) ==
    [op |-> "process.spawn", arg |-> command, timeout |-> NoDuration,
     pc |-> "effect", effect |-> FALSE, effective |-> NoDuration, res |-> Ok]

\* fs::read_file, up to its effect (std::fs::read_to_string)
read_file_unchecked(safety, path) ==
    after_check("fs.read", path, NoDuration, Ok)

read_file(safety, path) ==
    after_check("fs.read", path, NoDuration, check_read(safety.paths, path))

\* fs::write_file, up to its effect (std::fs::write)
write_file(safety, path) ==
    after_check("fs.write", path, NoDuration, check_write(safety.paths, path))

\* fs::exists, up to its effect (Path::exists)
exists(safety, path) ==
    after_check("fs.exists", path, NoDuration, check_read(safety.paths, path))

\* fs::list_dir, up to its effect (std::fs::read_dir)
list_dir(safety, path) ==
    after_check("fs.list", path, NoDuration, check_read(safety.paths, path))

\* fs::mkdir, up to its effect (std::fs::create_dir_all)
mkdir(safety, path) ==
    after_check("fs.mkdir", path, NoDuration, check_write(safety.paths, path))

\* fs::remove, up to its effect (remove_dir_all or remove_file)
remove(safety, path) ==
    after_check("fs.remove", path, NoDuration, check_write(safety.paths, path))

\* env::get, up to its effect (std::env::var)
env_get(safety, name) ==
    after_check("env.get", name, NoDuration, check_env(safety, name))

\* env::set, up to its effect (std::env::set_var)
env_set(safety, name) ==
    after_check("env.set", name, NoDuration, check_env(safety, name))

\* The adapters that resolve a timeout before their effect.
TimedOps == {"net.get", "net.post", "process.exec"}

\* The rest of an adapter call: the timeout is resolved (net, process.exec),
\* the effect is performed and its outcome returned.  A filesystem effect
\* may fail (io_ok false), the simulated request and execution do not.
perform(safety, call, io_ok) ==
    [call EXCEPT
        !.pc = "done",
        !.effect = TRUE,
        !.effective = IF call.op \in TimedOps
                      THEN SomeDuration(effective_timeout(safety, call.timeout))
                      ELSE NoDuration,
        !.res = IF io_ok THEN Ok ELSE Err(host_function(<<"io">>))]

(***************************************************************************)
(* Module configuration and registration (src/src/config.rs, registry.rs). *)
(***************************************************************************)
\* The fields of StdlibConfig that hold a ModuleConfig.
Modules ==
    {"process", "fs", "path", "env", "format", "net", "time", "metrics"}

\* Duration::from_secs value of ModuleConfig::default, in seconds.
ModuleTimeoutSecs == 30

\* impl Default for ModuleConfig (and ModuleConfig::new)
ModuleConfig_default ==
    [enabled |-> TRUE, timeout |-> SomeDuration(ModuleTimeoutSecs),
     options |-> {}]

\* ModuleConfig::disabled
ModuleConfig_disabled == [ModuleConfig_default EXCEPT !.enabled = FALSE]

\* impl Default for StdlibConfig (and StdlibConfig::new)
StdlibConfig_default ==
    [safety |-> SafetyConfig_default,
     process |-> ModuleConfig_disabled,
     fs |-> ModuleConfig_default,
     path |-> ModuleConfig_default,
     env |-> ModuleConfig_default,
     format |-> ModuleConfig_default,
     net |-> ModuleConfig_disabled,
     time |-> ModuleConfig_default,
     metrics |-> ModuleConfig_default]

\* StdlibConfig::permissive
StdlibConfig_permissive ==
    [safety |-> SafetyConfig_permissive,
     process |-> ModuleConfig_default,
     fs |-> ModuleConfig_default,
     path |-> ModuleConfig_default,
     env |-> ModuleConfig_default,
     format |-> ModuleConfig_default,
     net |-> ModuleConfig_default,
     time |-> ModuleConfig_default,
     metrics |-> ModuleConfig_default]

\* StdlibConfig::strict
StdlibConfig_strict ==
    [safety |-> SafetyConfig_strict,
     process |-> ModuleConfig_disabled,
     fs |-> ModuleConfig_disabled,
     path |-> ModuleConfig_default,
     env |-> ModuleConfig_disabled,
     format |-> ModuleConfig_default,
     net |-> ModuleConfig_disabled,
     time |-> ModuleConfig_default,
     metrics |-> ModuleConfig_disabled]

\* StdlibConfig::with_safety
with_safety(self, safety) == [self EXCEPT !.safety = safety]

\* StdlibConfig::with_process, with_fs, with_path, with_env, with_format,
\* with_net, with_time, with_metrics: module names the field.
with_module(self, module, mc) == [self EXCEPT ![module] = mc]

\* StdlibConfig::enable_all
enable_all(self) ==
    [f \in DOMAIN self |->
        IF f \in Modules THEN [self[f] EXCEPT !.enabled = TRUE] ELSE self[f]]

\* StdlibConfig::disable_all
disable_all(self) ==
    [f \in DOMAIN self |->
        IF f \in Modules THEN [self[f] EXCEPT !.enabled = FALSE] ELSE self[f]]

\* The names register_process, register_fs, ... register under their module.
ModuleFunctions ==
    [process |-> {"exec", "spawn"},
     fs |-> {"read", "write", "exists", "list", "mkdir", "remove"},
     path |-> {"join", "dirname", "basename", "extension", "normalize",
               "is_absolute"},
     env |-> {"get", "set", "cwd"},
     format |-> {"sprintf", "template", "json_encode", "json_decode"},
     net |-> {"get", "post"},
     time |-> {"now", "now_millis", "sleep", "format", "parse"},
     metrics |-> {"counter_inc", "gauge_set", "histogram_observe"}]

\* StdlibRegistry::register_process, register_fs, ...: module names which.
register_module(module) == {<<module, f>> : f \in ModuleFunctions[module]}

\* StdlibRegistry::register_all on the HostRegistry reg, in a build with the
\* features built: a module is registered when its feature is compiled in
\* and its enabled flag is set.
register_all(self, built, reg) ==
    reg \cup UNION {register_module(module) :
                      module \in {x \in Modules \cap built :
                                      self.config[x].enabled}}

\* No StdlibRegistry has been created.
NoStdlib == [created |-> FALSE]

(***************************************************************************)
(* Checks that run concurrently on one shared SafetyConfig.  A thread      *)
(* holds [pc, op, arg, todo, res]: the loop it is in ("deny", then         *)
(* "allow"), the entries of the set the loop has not visited yet, and the  *)
(* outcome.  A HashSet iterates in any order.                              *)
(***************************************************************************)
\* A thread that runs no call.
Idle == [pc |-> "idle"]

\* The set a loop of the check iterates over.
policy_set(safety, op, pc) ==
    CASE op = "host_check" ->
            IF pc = "deny" THEN safety.hosts.denied ELSE safety.hosts.allowed
      [] op = "check_read" ->
            IF pc = "deny" THEN safety.paths.deny ELSE safety.paths.read
      [] op = "check_write" ->
            IF pc = "deny" THEN safety.paths.deny ELSE safety.paths.write

\* The test the loop makes on one entry.
entry_matches(op, arg, entry) ==
    IF op = "host_check" THEN host_matches(to_lowercase(arg), entry)
    ELSE path_starts_with(arg, entry)

\* The error of a failed check.
check_denied(op, arg) ==
    Err(IF op = "host_check" THEN host_not_allowed(arg)
        ELSE path_not_allowed(arg))

\* The check is entered: the deny loop starts.
check_begin(safety, op, arg) ==
    [pc |-> "deny", op |-> op, arg |-> arg,
     todo |-> policy_set(safety, op, "deny"), res |-> Ok]

\* A deliberately wrong loop: the first entry visited in the allow set
\* decides the check.
check_visit_first_decides(call, entry) ==
    IF entry_matches(call.op, call.arg, entry)
    THEN [call EXCEPT !.pc = "done", !.todo = {},
                      !.res = IF call.pc = "deny"
                              THEN check_denied(call.op, call.arg) ELSE Ok]
    ELSE IF call.pc = "allow"
         THEN [call EXCEPT !.pc = "done", !.todo = {},
                           !.res = check_denied(call.op, call.arg)]
    ELSE [call EXCEPT !.todo = @ \ {entry}]

\* One iteration of a loop: a matching entry ends the check, denied in the
\* deny loop and allowed in the allow loop.
check_visit(call, entry) ==
    IF entry_matches(call.op, call.arg, entry)
    THEN [call EXCEPT !.pc = "done", !.todo = {},
                      !.res = IF call.pc = "deny"
                              THEN check_denied(call.op, call.arg) ELSE Ok]
    ELSE [call EXCEPT !.todo = @ \ {entry}]

\* A loop has visited every entry: the deny loop hands over to the allow
\* loop, the allow loop fails the check.
check_exhausted(safety, call) ==
    IF call.pc = "deny"
    THEN [call EXCEPT !.pc = "allow",
                      !.todo = policy_set(safety, call.op, "allow")]
    ELSE [call EXCEPT !.pc = "done",
                      !.res = check_denied(call.op, call.arg)]

(***************************************************************************)
(* MetricsRegistry: counters is RwLock<HashMap<String, AtomicU64>>.  The   *)
(* lock is held by a set of readers or by one writer.  The values of the   *)
(* model stay far below 2^64, where fetch_add wraps.                       *)
(***************************************************************************)
\* The counter names of the model.
MetricNames == {"c1", "c2"}

\* HashMap::get on a missing key.
NoCounter == [some |-> FALSE, v |-> 0]

\* MetricsRegistry::new
MetricsRegistry_new ==
    [counters |-> [n \in MetricNames |-> NoCounter],
     readers |-> {}, writer |-> {}]

\* AtomicU64::fetch_add
fetch_add(counter, value) == [some |-> TRUE, v |-> counter.v + value]

\* A deliberately wrong insertion: the writer stores a fresh counter holding
\* its value, whatever the map holds by then.
entry_insert_fresh(counters, name, value) ==
    [counters EXCEPT ![name] = [some |-> TRUE, v |-> value]]

\* counters.entry(name).or_insert_with(|| AtomicU64::new(0)).fetch_add(value)
entry_or_insert_add(counters, name, value) ==
    [counters EXCEPT
        ![name] = fetch_add(IF @.some THEN @ ELSE [some |-> TRUE, v |-> 0],
                            value)]

\* MetricsRegistry::counter_get, on the map the read lock gives access to.
counter_get(counters, name) ==
    IF counters[name].some THEN counters[name].v ELSE 0

(***************************************************************************)
(* Inputs of the model.                                                    *)
(***************************************************************************)
\* The segments checked paths are made of.
Segments == {<<"a">>, <<"a", "a">>, <<".", ".">>, <<".">>}

SegSeqs == UNION {[1..n -> Segments] : n \in 0..MaxSegs}

RECURSIVE JoinSegs(_, _)
JoinSegs(segs, i) ==
    IF i > Len(segs) THEN <<>>
    ELSE segs[i] \o (IF i < Len(segs) THEN <<"/">> ELSE <<>>)
                 \o JoinSegs(segs, i + 1)

\* The paths handed to the checks: absolute and relative, with "." and "..".
PathStrs ==
    {(IF abs THEN <<"/">> ELSE <<>>) \o JoinSegs(segs, 1) :
        abs \in BOOLEAN, segs \in SegSeqs}

\* The paths handed to the PathAllowlist builder calls: /a, /a/aa and the
\* relative a.
PrefixStrs == {<<"/", "a">>, <<"/", "a", "/", "a", "a">>, <<"a">>}

\* The characters host names are made of.
HostChars == {"a", "A", "."}

\* The hosts handed to the checks.
HostStrs == UNION {[1..n -> HostChars] : n \in 1..MaxHostLen}

\* The patterns handed to the HostAllowlist builder calls: *.a, *.A, a.a, A.
HostPatterns == {<<"*", ".", "a">>, <<"*", ".", "A">>, <<"a", ".", "a">>, <<"A">>}

\* Environment variable names: PATH, path, HOME.
N_PATH == <<"P", "A", "T", "H">>
N_path == <<"p", "a", "t", "h">>
N_HOME == <<"H", "O", "M", "E">>
EnvNames == {N_PATH, N_path, N_HOME}
EnvListed == {N_PATH, N_HOME}

\* Commands: ls, cat, /bin/ls.
C_ls == <<"l", "s">>
C_cat == <<"c", "a", "t">>
C_bin_ls == <<"/", "b", "i", "n", "/", "l", "s">>
Commands == {C_ls, C_cat, C_bin_ls}
CommandsListed == {C_ls, C_cat}

\* Timeouts handed to with_default_timeout and with_max_timeout, in seconds.
TimeoutInputs == {0, 30, 60, 120}

\* The allowlists handed to with_paths and with_hosts.
PathAllowlists ==
    {PathAllowlist_none, PathAllowlist_all,
     deny(allow_rw(PathAllowlist_none, <<"/", "a">>),
          <<"/", "a", "/", "a", "a">>)}
HostAllowlists ==
    {HostAllowlist_none, HostAllowlist_all,
     host_deny(host_allow(HostAllowlist_none, <<"*", ".", "a">>),
               <<"a", ".", "a">>)}

\* The paths and hosts checked through a SafetyConfig.
CfgPathStrs ==
    {<<"/", "a">>, <<"/", "a", "/", "a", "a">>, <<"a">>, <<"/">>}
CfgHostStrs == {<<"a">>, <<"a", ".", "a">>, <<"A", ".", "a">>, <<"a", "a">>}

\* The timeouts handed to the adapters and to clamp_timeout by callers.
RequestedTimeouts == {NoDuration} \cup {SomeDuration(t) : t \in TimeoutInputs}

\* The URLs handed to the net adapters: http://a.a/a, https://A.a:8, a,
\* aa:8/a, and https://, /a and :8, which have no host.
Urls ==
    {<<"h", "t", "t", "p", ":", "/", "/", "a", ".", "a", "/", "a">>,
     <<"h", "t", "t", "p", "s", ":", "/", "/", "A", ".", "a", ":", "8">>,
     <<"a">>, <<"a", "a", ":", "8", "/", "a">>,
     <<"h", "t", "t", "p", "s", ":", "/", "/">>, <<"/", "a">>, <<":", "8">>}

\* The arguments handed to net_http::request: none, a method, or a method
\* and a URL.
RequestArgs == {<<>>, <<<<"G", "E", "T">>>>} \cup {<<<<"G", "E", "T">>, url>> : url \in Urls}

\* The SafetyConfig values handed to the adapters: the presets, and
\* SafetyConfig::new() with one or two builder calls made on it.
AdapterConfigs ==
    {SafetyConfig_default, SafetyConfig_permissive, SafetyConfig_strict}
    \cup {with_paths(SafetyConfig_default, p) : p \in PathAllowlists}
    \cup {with_hosts(SafetyConfig_default, h) : h \in HostAllowlists}
    \cup {with_env_vars(SafetyConfig_default, n) : n \in SUBSET EnvListed}
    \cup {allow_all_env(SafetyConfig_default)}
    \cup {with_allow_process(SafetyConfig_default, TRUE)}
    \cup {with_allowed_commands(SafetyConfig_default, c) :
            c \in SUBSET CommandsListed}
    \cup {with_allowed_commands(
              with_allow_process(SafetyConfig_default, TRUE), c) :
            c \in SUBSET CommandsListed}
    \cup {with_max_timeout(with_default_timeout(s, d), mx) :
            s \in {SafetyConfig_permissive,
                   with_allowed_commands(
                       with_allow_process(SafetyConfig_default, TRUE), {C_ls})},
            d \in TimeoutInputs, mx \in TimeoutInputs}

\* The builds: every feature compiled in, or every feature but net.
Builds == {Modules, Modules \ {"net"}}

\* The SafetyConfig values handed to StdlibConfig::with_safety.
RegistrySafeties ==
    {SafetyConfig_default, SafetyConfig_permissive, SafetyConfig_strict,
     with_paths(SafetyConfig_default,
                allow_rw(PathAllowlist_none, <<"/", "a">>))}

\* The thread identifiers.
Threads == 1..NumThreads

\* The SafetyConfig values shared by concurrent checks: their policy sets
\* hold several entries, some of which match the same input.
SharedConfigs ==
    {with_hosts(
         with_paths(SafetyConfig_default,
                    deny(allow_read(allow_rw(PathAllowlist_none, <<"/", "a">>),
                                    <<"a">>),
                         <<"/", "a", "/", "a", "a">>)),
         host_deny(host_allow(host_allow(HostAllowlist_none, <<"*", ".", "a">>),
                              <<"A">>),
                   <<"a", ".", "a">>)),
     with_hosts(
         with_paths(SafetyConfig_default,
                    deny(deny(allow_rw(allow_read(PathAllowlist_none,
                                                  <<"/", "a">>),
                                       <<"/", "a", "/", "a", "a">>),
                              <<"/", "a", "/", "a", "a">>),
                         <<"a">>)),
         host_deny(host_deny(host_allow(host_allow(HostAllowlist_none,
                                                   <<"*", ".", "a">>),
                                        <<"a", "a">>),
                             <<"a", ".", "a">>),
                   <<"A">>))}

\* The values handed to counter_inc.
IncValues == {1, 2}

(***************************************************************************)
(* The state machine.  A check call computes its result (last), and        *)
(* Return hands it to the caller.                                          *)
(***************************************************************************)
Call(op, arg, res) == [op |-> op, arg |-> arg, res |-> res]

\* No thread runs a call, and the MetricsRegistry holds no counter.
NoThreads ==
    /\ threads = [t \in Threads |-> Idle]
    /\ metrics = MetricsRegistry_new
    /\ issued = [n \in MetricNames |-> 0]

\* Outside the registration: the default StdlibConfig, no StdlibRegistry.
NoStdlibRegistry ==
    /\ features = Modules
    /\ config = StdlibConfig_default
    /\ stdlib = NoStdlib
    /\ registry = {}
    /\ NoThreads

InitPaths ==
    /\ paths \in {PathAllowlist_none, PathAllowlist_all}
    /\ hosts = HostAllowlist_none
    /\ cfg = SafetyConfig_default
    /\ last = NoCall
    /\ NoStdlibRegistry

InitHosts ==
    /\ paths = PathAllowlist_none
    /\ hosts \in {HostAllowlist_none, HostAllowlist_all}
    /\ cfg = SafetyConfig_default
    /\ last = NoCall
    /\ NoStdlibRegistry

InitConfig ==
    /\ paths = PathAllowlist_none
    /\ hosts = HostAllowlist_none
    /\ cfg \in {SafetyConfig_default, SafetyConfig_permissive, SafetyConfig_strict}
    /\ last = NoCall
    /\ NoStdlibRegistry

InitAdapters ==
    /\ paths = PathAllowlist_none
    /\ hosts = HostAllowlist_none
    /\ cfg \in AdapterConfigs
    /\ last = NoCall
    /\ NoStdlibRegistry

InitRegistry ==
    /\ paths = PathAllowlist_none
    /\ hosts = HostAllowlist_none
    /\ cfg = SafetyConfig_default
    /\ last = NoCall
    /\ features \in Builds
    /\ config \in {StdlibConfig_default, StdlibConfig_permissive,
                   StdlibConfig_strict}
    /\ stdlib = NoStdlib
    /\ registry = {}
    /\ NoThreads

InitShared ==
    /\ paths = PathAllowlist_none
    /\ hosts = HostAllowlist_none
    /\ cfg \in SharedConfigs
    /\ last = NoCall
    /\ NoStdlibRegistry

InitMetrics ==
    /\ paths = PathAllowlist_none
    /\ hosts = HostAllowlist_none
    /\ cfg = SafetyConfig_default
    /\ last = NoCall
    /\ NoStdlibRegistry

Init ==
    \/ InitPaths \/ InitHosts \/ InitConfig \/ InitAdapters \/ InitRegistry
    \/ InitShared \/ InitMetrics

\* ---- PathAllowlist builder calls and checks
AllowRead(p) ==
    /\ last = NoCall
    /\ paths' = allow_read(paths, p)
    /\ UNCHANGED <<hosts, cfg, last, stdlibvars, sharedvars>>

AllowWrite(p) ==
    /\ last = NoCall
    /\ paths' = allow_write(paths, p)
    /\ UNCHANGED <<hosts, cfg, last, stdlibvars, sharedvars>>

AllowRw(p) ==
    /\ last = NoCall
    /\ paths' = allow_rw(paths, p)
    /\ UNCHANGED <<hosts, cfg, last, stdlibvars, sharedvars>>

Deny(p) ==
    /\ last = NoCall
    /\ paths' = deny(paths, p)
    /\ UNCHANGED <<hosts, cfg, last, stdlibvars, sharedvars>>

CheckRead(p) ==
    /\ last = NoCall
    /\ last' = Call("check_read", p, check_read(paths, p))
    /\ UNCHANGED <<paths, hosts, cfg, stdlibvars, sharedvars>>

CheckWrite(p) ==
    /\ last = NoCall
    /\ last' = Call("check_write", p, check_write(paths, p))
    /\ UNCHANGED <<paths, hosts, cfg, stdlibvars, sharedvars>>

\* The check call in flight returns its result to the caller.
Return ==
    /\ last # NoCall
    /\ last' = NoCall
    /\ UNCHANGED <<paths, hosts, cfg, stdlibvars, sharedvars>>

NextPaths ==
    \/ \E p \in PrefixStrs : AllowRead(p)
    \/ \E p \in PrefixStrs : AllowWrite(p)
    \/ \E p \in PrefixStrs : AllowRw(p)
    \/ \E p \in PrefixStrs : Deny(p)
    \/ \E p \in PathStrs : CheckRead(p)
    \/ \E p \in PathStrs : CheckWrite(p)
    \/ Return

SpecPaths == InitPaths /\ [][NextPaths]_vars

\* ---- HostAllowlist builder calls and checks
HostAllow(h) ==
    /\ last = NoCall
    /\ hosts' = host_allow(hosts, h)
    /\ UNCHANGED <<paths, cfg, last, stdlibvars, sharedvars>>

HostDeny(h) ==
    /\ last = NoCall
    /\ hosts' = host_deny(hosts, h)
    /\ UNCHANGED <<paths, cfg, last, stdlibvars, sharedvars>>

HostCheck(h) ==
    /\ last = NoCall
    /\ last' = Call("host_check", h, host_check(hosts, h))
    /\ UNCHANGED <<paths, hosts, cfg, stdlibvars, sharedvars>>

NextHosts ==
    \/ \E h \in HostPatterns : HostAllow(h)
    \/ \E h \in HostPatterns : HostDeny(h)
    \/ \E h \in HostStrs : HostCheck(h)
    \/ Return

SpecHosts == InitHosts /\ [][NextHosts]_vars

\* ---- The two allowlists: they are independent values, and a run builds
\* and checks one of them.
InitLists == InitPaths \/ InitHosts

NextLists ==
    \/ hosts = HostAllowlist_none /\ NextPaths
    \/ paths = PathAllowlist_none /\ NextHosts

SpecLists == InitLists /\ [][NextLists]_vars

\* ---- The builder calls of the two allowlists alone: the construction of a
\* policy before any check is made on it.
NextBuilders ==
    \/ /\ hosts = HostAllowlist_none
       /\ \E p \in PrefixStrs :
             AllowRead(p) \/ AllowWrite(p) \/ AllowRw(p) \/ Deny(p)
    \/ /\ paths = PathAllowlist_none
       /\ \E h \in HostPatterns : HostAllow(h) \/ HostDeny(h)

SpecBuilders == InitLists /\ [][NextBuilders]_vars

\* ---- SafetyConfig builder calls and checks
WithPaths(p) ==
    /\ last = NoCall
    /\ cfg' = with_paths(cfg, p)
    /\ UNCHANGED <<paths, hosts, last, stdlibvars, sharedvars>>

WithHosts(h) ==
    /\ last = NoCall
    /\ cfg' = with_hosts(cfg, h)
    /\ UNCHANGED <<paths, hosts, last, stdlibvars, sharedvars>>

WithEnvVars(names) ==
    /\ last = NoCall
    /\ cfg' = with_env_vars(cfg, names)
    /\ UNCHANGED <<paths, hosts, last, stdlibvars, sharedvars>>

AllowAllEnv ==
    /\ last = NoCall
    /\ cfg' = allow_all_env(cfg)
    /\ UNCHANGED <<paths, hosts, last, stdlibvars, sharedvars>>

WithAllowProcess(allow) ==
    /\ last = NoCall
    /\ cfg' = with_allow_process(cfg, allow)
    /\ UNCHANGED <<paths, hosts, last, stdlibvars, sharedvars>>

WithAllowedCommands(commands) ==
    /\ last = NoCall
    /\ cfg' = with_allowed_commands(cfg, commands)
    /\ UNCHANGED <<paths, hosts, last, stdlibvars, sharedvars>>

WithDefaultTimeout(t) ==
    /\ last = NoCall
    /\ cfg' = with_default_timeout(cfg, t)
    /\ UNCHANGED <<paths, hosts, last, stdlibvars, sharedvars>>

WithMaxTimeout(t) ==
    /\ last = NoCall
    /\ cfg' = with_max_timeout(cfg, t)
    /\ UNCHANGED <<paths, hosts, last, stdlibvars, sharedvars>>

CfgCheckRead(p) ==
    /\ last = NoCall
    /\ last' = Call("check_read", p, check_read(cfg.paths, p))
    /\ UNCHANGED <<paths, hosts, cfg, stdlibvars, sharedvars>>

CfgCheckWrite(p) ==
    /\ last = NoCall
    /\ last' = Call("check_write", p, check_write(cfg.paths, p))
    /\ UNCHANGED <<paths, hosts, cfg, stdlibvars, sharedvars>>

CfgCheckHost(h) ==
    /\ last = NoCall
    /\ last' = Call("host_check", h, host_check(cfg.hosts, h))
    /\ UNCHANGED <<paths, hosts, cfg, stdlibvars, sharedvars>>

CheckEnv(name) ==
    /\ last = NoCall
    /\ last' = Call("check_env", name, check_env(cfg, name))
    /\ UNCHANGED <<paths, hosts, cfg, stdlibvars, sharedvars>>

CheckExecute(command) ==
    /\ last = NoCall
    /\ last' = Call("check_execute", command, check_execute(cfg, command))
    /\ UNCHANGED <<paths, hosts, cfg, stdlibvars, sharedvars>>

NextConfig ==
    \/ \E p \in PathAllowlists : WithPaths(p)
    \/ \E h \in HostAllowlists : WithHosts(h)
    \/ \E names \in SUBSET EnvListed : WithEnvVars(names)
    \/ AllowAllEnv
    \/ \E allow \in BOOLEAN : WithAllowProcess(allow)
    \/ \E commands \in SUBSET CommandsListed : WithAllowedCommands(commands)
    \/ \E t \in TimeoutInputs : WithDefaultTimeout(t)
    \/ \E t \in TimeoutInputs : WithMaxTimeout(t)
    \/ \E p \in CfgPathStrs : CfgCheckRead(p)
    \/ \E p \in CfgPathStrs : CfgCheckWrite(p)
    \/ \E h \in CfgHostStrs : CfgCheckHost(h)
    \/ \E name \in EnvNames : CheckEnv(name)
    \/ \E command \in Commands : CheckExecute(command)
    \/ Return

SpecConfig == InitConfig /\ [][NextConfig]_vars

\* ---- The adapters, called with a SafetyConfig (cfg)
ClampTimeout(t) ==
    /\ last = NoCall
    /\ last' = [op |-> "clamp_timeout", arg |-> t, timeout |-> NoDuration,
                pc |-> "done", effect |-> FALSE, effective |-> NoDuration,
                res |-> clamp_timeout(cfg, t)]
    /\ UNCHANGED <<paths, hosts, cfg, stdlibvars, sharedvars>>

\* A call of one of the fs adapters.
FsCall(name, path) ==
    /\ last = NoCall
    /\ last' = CASE name = "read" -> read_file(cfg, path)
                 [] name = "write" -> write_file(cfg, path)
                 [] name = "exists" -> exists(cfg, path)
                 [] name = "list" -> list_dir(cfg, path)
                 [] name = "mkdir" -> mkdir(cfg, path)
                 [] name = "remove" -> remove(cfg, path)
    /\ UNCHANGED <<paths, hosts, cfg, stdlibvars, sharedvars>>

\* A call of env::get or env::set.
EnvCall(name, var) ==
    /\ last = NoCall
    /\ last' = CASE name = "get" -> env_get(cfg, var)
                 [] name = "set" -> env_set(cfg, var)
    /\ UNCHANGED <<paths, hosts, cfg, stdlibvars, sharedvars>>

\* A call of net::http_get or net::http_post.
NetCall(name, timeout, url) ==
    /\ last = NoCall
    /\ last' = CASE name = "get" -> http_get(cfg, timeout, url)
                 [] name = "post" -> http_post(cfg, timeout, url)
    /\ UNCHANGED <<paths, hosts, cfg, stdlibvars, sharedvars>>

\* A call of net_http::check_request_safety.
CheckRequestSafety(url) ==
    /\ last = NoCall
    /\ last' = [op |-> "net_http.check_request_safety", arg |-> url,
                timeout |-> NoDuration, pc |-> "done", effect |-> FALSE,
                effective |-> NoDuration,
                res |-> check_request_safety(cfg, url)]
    /\ UNCHANGED <<paths, hosts, cfg, stdlibvars, sharedvars>>

\* A call of net_http::request.
HttpRequest(args) ==
    /\ last = NoCall
    /\ last' = request(args)
    /\ UNCHANGED <<paths, hosts, cfg, stdlibvars, sharedvars>>

\* A call of process::exec or process::spawn.
ProcessCall(name, timeout, command) ==
    /\ last = NoCall
    /\ last' = CASE name = "exec" -> exec(cfg, timeout, command)
                 [] name = "spawn" -> spawn(command)
    /\ UNCHANGED <<paths, hosts, cfg, stdlibvars, sharedvars>>

\* The call in flight passed its check: it performs its effect.
Perform(io_ok) ==
    /\ last # NoCall
    /\ "pc" \in DOMAIN last
    /\ last.pc = "effect"
    /\ io_ok \/ last.op \in {"fs.read", "fs.write", "fs.list", "fs.mkdir",
                              "fs.remove"}
    /\ last' = perform(cfg, last, io_ok)
    /\ UNCHANGED <<paths, hosts, cfg, stdlibvars, sharedvars>>

\* The call in flight returns its result to the caller.
AdapterReturn ==
    /\ last # NoCall
    /\ "pc" \in DOMAIN last
    /\ last.pc = "done"
    /\ last' = NoCall
    /\ UNCHANGED <<paths, hosts, cfg, stdlibvars, sharedvars>>

NextAdapters ==
    \/ \E t \in TimeoutInputs : ClampTimeout(t)
    \/ \E name \in ModuleFunctions.fs, path \in CfgPathStrs : FsCall(name, path)
    \/ \E name \in {"get", "set"}, var \in EnvNames : EnvCall(name, var)
    \/ \E name \in ModuleFunctions.net, t \in RequestedTimeouts, url \in Urls :
          NetCall(name, t, url)
    \/ \E name \in ModuleFunctions.process, t \in RequestedTimeouts,
          command \in Commands : ProcessCall(name, t, command)
    \/ \E url \in Urls : CheckRequestSafety(url)
    \/ \E args \in RequestArgs : HttpRequest(args)
    \/ \E io_ok \in BOOLEAN : Perform(io_ok)
    \/ AdapterReturn

SpecAdapters == InitAdapters /\ [][NextAdapters]_vars

\* ---- StdlibConfig builder calls, StdlibRegistry and the registered
\* ---- functions, which call the adapters with the registry's SafetyConfig
WithSafety(safety) ==
    /\ stdlib = NoStdlib
    /\ config' = with_safety(config, safety)
    /\ UNCHANGED <<paths, hosts, cfg, last, features, stdlib, registry, sharedvars>>

WithModule(module, mc) ==
    /\ stdlib = NoStdlib
    /\ config' = with_module(config, module, mc)
    /\ UNCHANGED <<paths, hosts, cfg, last, features, stdlib, registry, sharedvars>>

EnableAll ==
    /\ stdlib = NoStdlib
    /\ config' = enable_all(config)
    /\ UNCHANGED <<paths, hosts, cfg, last, features, stdlib, registry, sharedvars>>

DisableAll ==
    /\ stdlib = NoStdlib
    /\ config' = disable_all(config)
    /\ UNCHANGED <<paths, hosts, cfg, last, features, stdlib, registry, sharedvars>>

\* StdlibRegistry::new(config): the registry keeps the config and shares a
\* clone of its SafetyConfig (cfg) with the functions it registers.
NewStdlibRegistry ==
    /\ stdlib = NoStdlib
    /\ stdlib' = [created |-> TRUE, config |-> config]
    /\ cfg' = config.safety
    /\ UNCHANGED <<paths, hosts, last, features, config, registry, sharedvars>>

RegisterAll ==
    /\ stdlib # NoStdlib
    /\ last = NoCall
    /\ registry' = register_all(stdlib, features, registry)
    /\ UNCHANGED <<paths, hosts, cfg, last, features, config, stdlib, sharedvars>>

\* A script calls a registered function: the closure registered under
\* <<module, name>> calls the adapter with the registry's SafetyConfig and
\* the module's timeout.
Invoke(module, name, arg) ==
    /\ <<module, name>> \in registry
    /\ CASE module = "fs" -> FsCall(name, arg)
         [] module = "env" -> EnvCall(name, arg)
         [] module = "net" -> NetCall(name, stdlib.config.net.timeout, arg)
         [] module = "process" ->
                ProcessCall(name, stdlib.config.process.timeout, arg)

NextRegistry ==
    \/ \E safety \in RegistrySafeties : WithSafety(safety)
    \/ \E module \in Modules,
          mc \in {ModuleConfig_default, ModuleConfig_disabled} :
          WithModule(module, mc)
    \/ EnableAll
    \/ DisableAll
    \/ NewStdlibRegistry
    \/ RegisterAll
    \/ \E name \in ModuleFunctions.fs, path \in CfgPathStrs :
          Invoke("fs", name, path)
    \/ \E name \in {"get", "set"}, var \in EnvNames : Invoke("env", name, var)
    \/ \E name \in ModuleFunctions.net, url \in Urls : Invoke("net", name, url)
    \/ \E name \in ModuleFunctions.process, command \in Commands :
          Invoke("process", name, command)
    \/ \E io_ok \in BOOLEAN : Perform(io_ok)
    \/ AdapterReturn

SpecRegistry == InitRegistry /\ [][NextRegistry]_vars

\* ---- Checks of several threads on the shared SafetyConfig (cfg)
SharedCheck(t, op, arg) ==
    /\ threads[t] = Idle
    /\ threads' = [threads EXCEPT ![t] = check_begin(cfg, op, arg)]
    /\ UNCHANGED <<paths, hosts, cfg, last, stdlibvars, metrics, issued>>

SharedVisit(t) ==
    /\ threads[t].pc \in {"deny", "allow"}
    /\ \E entry \in threads[t].todo :
          threads' = [threads EXCEPT ![t] = check_visit(@, entry)]
    /\ UNCHANGED <<paths, hosts, cfg, last, stdlibvars, metrics, issued>>

SharedExhausted(t) ==
    /\ threads[t].pc \in {"deny", "allow"}
    /\ threads[t].todo = {}
    /\ threads' = [threads EXCEPT ![t] = check_exhausted(cfg, @)]
    /\ UNCHANGED <<paths, hosts, cfg, last, stdlibvars, metrics, issued>>

SharedReturn(t) ==
    /\ threads[t].pc = "done"
    /\ threads' = [threads EXCEPT ![t] = Idle]
    /\ UNCHANGED <<paths, hosts, cfg, last, stdlibvars, metrics, issued>>

NextShared ==
    \/ \E t \in Threads, h \in CfgHostStrs : SharedCheck(t, "host_check", h)
    \/ \E t \in Threads, op \in {"check_read", "check_write"},
          p \in CfgPathStrs : SharedCheck(t, op, p)
    \/ \E t \in Threads : SharedVisit(t)
    \/ \E t \in Threads : SharedExhausted(t)
    \/ \E t \in Threads : SharedReturn(t)

SpecShared == InitShared /\ [][NextShared]_vars

\* ---- counter_inc and counter_get of several threads on one MetricsRegistry
CounterInc(t, name, value) ==
    /\ threads[t] = Idle
    /\ issued[name] + value <= MaxCounter
    /\ threads' = [threads EXCEPT
                      ![t] = [pc |-> "read", op |-> "counter_inc",
                              name |-> name, value |-> value]]
    /\ issued' = [issued EXCEPT ![name] = @ + value]
    /\ UNCHANGED <<paths, hosts, cfg, last, stdlibvars, metrics>>

CounterGet(t, name) ==
    /\ threads[t] = Idle
    /\ threads' = [threads EXCEPT
                      ![t] = [pc |-> "read", op |-> "counter_get",
                              name |-> name, value |-> 0]]
    /\ UNCHANGED <<paths, hosts, cfg, last, stdlibvars, metrics, issued>>

\* self.counters.read(): waits while a writer holds the lock.
ReadLock(t) ==
    /\ threads[t].pc = "read"
    /\ metrics.writer = {}
    /\ metrics' = [metrics EXCEPT !.readers = @ \cup {t}]
    /\ threads' = [threads EXCEPT ![t].pc = "get"]
    /\ UNCHANGED <<paths, hosts, cfg, last, stdlibvars, issued>>

\* counters.get(name) under the read lock: counter_get loads the value,
\* counter_inc adds to a counter that exists and otherwise goes for the
\* write lock.
Lookup(t) ==
    /\ threads[t].pc = "get"
    /\ LET call == threads[t]
           found == metrics.counters[call.name].some
       IN  /\ threads' =
                  [threads EXCEPT
                      ![t] = IF call.op = "counter_get"
                             THEN [call EXCEPT
                                      !.pc = "unlock",
                                      !.value = counter_get(metrics.counters,
                                                            call.name)]
                             ELSE [call EXCEPT
                                      !.pc = IF found THEN "unlock"
                                             ELSE "drop"]]
           /\ metrics' =
                  IF call.op = "counter_inc" /\ found
                  THEN [metrics EXCEPT
                           !.counters[call.name] = fetch_add(@, call.value)]
                  ELSE metrics
    /\ UNCHANGED <<paths, hosts, cfg, last, stdlibvars, issued>>

\* The guard of the lock goes out of scope and the call returns.
Unlock(t) ==
    /\ threads[t].pc = "unlock"
    /\ metrics' = [metrics EXCEPT !.readers = @ \ {t}, !.writer = @ \ {t}]
    /\ threads' = [threads EXCEPT ![t] = Idle]
    /\ UNCHANGED <<paths, hosts, cfg, last, stdlibvars, issued>>

\* drop(counters): the read lock is released before the write lock is taken.
DropRead(t) ==
    /\ threads[t].pc = "drop"
    /\ metrics' = [metrics EXCEPT !.readers = @ \ {t}]
    /\ threads' = [threads EXCEPT ![t].pc = "write"]
    /\ UNCHANGED <<paths, hosts, cfg, last, stdlibvars, issued>>

\* self.counters.write(): waits while anyone holds the lock.
WriteLock(t) ==
    /\ threads[t].pc = "write"
    /\ metrics.writer = {}
    /\ metrics.readers = {}
    /\ metrics' = [metrics EXCEPT !.writer = {t}]
    /\ threads' = [threads EXCEPT ![t].pc = "entry"]
    /\ UNCHANGED <<paths, hosts, cfg, last, stdlibvars, issued>>

\* entry(name).or_insert_with(..).fetch_add(value) under the write lock; the
\* write guard then goes out of scope.
Entry(t) ==
    /\ threads[t].pc = "entry"
    /\ metrics' = [metrics EXCEPT
                      !.counters = entry_or_insert_add(@, threads[t].name,
                                                       threads[t].value)]
    /\ threads' = [threads EXCEPT ![t].pc = "unlock"]
    /\ UNCHANGED <<paths, hosts, cfg, last, stdlibvars, issued>>

NextMetrics ==
    \/ \E t \in Threads, name \in MetricNames, value \in IncValues :
          CounterInc(t, name, value)
    \/ \E t \in Threads, name \in MetricNames : CounterGet(t, name)
    \/ \E t \in Threads : ReadLock(t)
    \/ \E t \in Threads : Lookup(t)
    \/ \E t \in Threads : Unlock(t)
    \/ \E t \in Threads : DropRead(t)
    \/ \E t \in Threads : WriteLock(t)
    \/ \E t \in Threads : Entry(t)

SpecMetrics == InitMetrics /\ [][NextMetrics]_vars

Next ==
    \/ NextPaths \/ NextHosts \/ NextConfig \/ NextAdapters \/ NextRegistry
    \/ NextShared \/ NextMetrics

Spec == Init /\ [][Next]_vars

(***************************************************************************)
(* Properties of PathAllowlist (checked under SpecPaths).                  *)
(***************************************************************************)
\* "path is under the stored prefix": the components of the prefix are the
\* leading components of the path.
IsUnder(path, prefix) ==
    LET comps == Components(path)
    IN  /\ Len(prefix) <= Len(comps)
        /\ SubSeq(comps, 1, Len(prefix)) = prefix

UnderSome(path, set) == \E prefix \in set : IsUnder(path, prefix)

IsPathCheck == last.op \in {"check_read", "check_write"}

\* C1: check_read(p) succeeds iff p is under no prefix of the deny set and
\* under at least one prefix of the read set; check_write(p) succeeds iff p
\* is under no deny prefix and under at least one prefix of the write set.
C1_PathAllowedIff ==
    /\ last.op = "check_read" =>
          (last.res.ok <=> /\ ~UnderSome(last.arg, paths.deny)
                           /\ UnderSome(last.arg, paths.read))
    /\ last.op = "check_write" =>
          (last.res.ok <=> /\ ~UnderSome(last.arg, paths.deny)
                           /\ UnderSome(last.arg, paths.write))

\* A read that succeeds beside a deny entry, on a path that may not be
\* written.
C1_Witness ==
    /\ last.op = "check_read"
    /\ last.res.ok
    /\ paths.deny # {}
    /\ ~can_write(paths, last.arg)

\* C2: deny overrides allow whatever the order of the builder calls: a path
\* under a denied prefix fails check_read and check_write; a builder call
\* after the deny never makes it allowed again; and a deny call and an allow
\* call give the same allowlist in either order.
C2_DenyOverridesAllow ==
    /\ [](/\ (IsPathCheck /\ UnderSome(last.arg, paths.deny)) => ~last.res.ok
          /\ last = NoCall =>
                \A p, q \in PrefixStrs :
                    /\ deny(allow_read(paths, p), q) = allow_read(deny(paths, q), p)
                    /\ deny(allow_write(paths, p), q) = allow_write(deny(paths, q), p)
                    /\ deny(allow_rw(paths, p), q) = allow_rw(deny(paths, q), p))
    /\ [][paths' # paths =>
            \A p \in PathStrs :
                is_denied(paths, p) =>
                    /\ ~check_read(paths', p).ok
                    /\ ~check_write(paths', p).ok]_vars

\* A path under an allowed read prefix and under a denied prefix is refused.
C2_Witness ==
    /\ last.op = "check_read"
    /\ ~last.res.ok
    /\ UnderSome(last.arg, paths.read)
    /\ UnderSome(last.arg, paths.write)
    /\ UnderSome(last.arg, paths.deny)

\* C3: with empty read and write sets (with or without deny entries) every
\* check_read and check_write fails with the PathNotAllowed kind.
C3_DefaultDeny ==
    (IsPathCheck /\ paths.read = {} /\ paths.write = {}) =>
        /\ ~last.res.ok
        /\ last.res.err.kind = "PathNotAllowed"

\* A refused read of an absolute path with nothing allowed and a deny entry.
C3_Witness ==
    /\ last.op = "check_read"
    /\ paths.read = {} /\ paths.write = {} /\ paths.deny # {}
    /\ Len(last.arg) > 0 /\ last.arg[1] = "/"
    /\ ~last.res.ok
    /\ last.res.err.kind = "PathNotAllowed"

(***************************************************************************)
(* Properties of HostAllowlist (checked under SpecHosts).                  *)
(***************************************************************************)
\* Some pattern of the set matches the host, by the code's matching.
MatchesSome(host, patterns) ==
    \E pattern \in patterns : host_matches(to_lowercase(host), pattern)

\* C4: if any denied pattern matches the host the check fails, whatever the
\* allowed set holds (the wildcard "*" included); when no denied pattern
\* matches, the check succeeds iff some allowed pattern matches.
C4_HostDenyFirst ==
    last.op = "host_check" =>
        /\ MatchesSome(last.arg, hosts.denied) => ~last.res.ok
        /\ ~MatchesSome(last.arg, hosts.denied) =>
              (last.res.ok <=> MatchesSome(last.arg, hosts.allowed))

\* A host refused by a deny pattern although "*" is allowed.
C4_Witness ==
    /\ last.op = "host_check"
    /\ <<"*">> \in hosts.allowed
    /\ MatchesSome(last.arg, hosts.denied)
    /\ ~last.res.ok

\* The matching rule as the specification words it, on a pattern and a host:
\* "*" matches every host; "*.S" matches h iff h ends with ".S" or h = S;
\* any other pattern matches iff it equals h.
MatchRule(h, p) ==
    IF p = <<"*">> THEN TRUE
    ELSE IF Len(p) >= 2 /\ p[1] = "*" /\ p[2] = "."
    THEN LET S == [i \in 1..(Len(p) - 2) |-> p[i + 2]]
         IN  \/ /\ Len(h) > Len(S)
                /\ h[Len(h) - Len(S)] = "."
                /\ \A i \in 1..Len(S) : h[Len(h) - Len(S) + i] = S[i]
             \/ h = S
    ELSE p = h

\* The policy of test_host_allowlist: allow("api.example.com"),
\* allow("*.trusted.org"), deny("evil.trusted.org").
H_api_example_com ==
    <<"a","p","i",".","e","x","a","m","p","l","e",".","c","o","m">>
H_wild_trusted_org == <<"*",".","t","r","u","s","t","e","d",".","o","r","g">>
H_evil_trusted_org ==
    <<"e","v","i","l",".","t","r","u","s","t","e","d",".","o","r","g">>
H_sub_trusted_org ==
    <<"s","u","b",".","t","r","u","s","t","e","d",".","o","r","g">>
H_trusted_org == <<"t","r","u","s","t","e","d",".","o","r","g">>
H_other_com == <<"o","t","h","e","r",".","c","o","m">>

TestHosts ==
    host_deny(host_allow(host_allow(HostAllowlist_none, H_api_example_com),
                         H_wild_trusted_org),
              H_evil_trusted_org)

\* sub.trusted.org and trusted.org are allowed, evil.trusted.org and
\* other.com are refused.
TestHostsOutcomes ==
    /\ host_check(TestHosts, H_sub_trusted_org).ok
    /\ host_check(TestHosts, H_trusted_org).ok
    /\ ~host_check(TestHosts, H_evil_trusted_org).ok
    /\ ~host_check(TestHosts, H_other_com).ok

\* C5: the pattern matching rule (letter case set aside: pattern and host are
\* compared lowercased), and the outcomes of the example policy.
C5_HostPatternRule ==
    /\ last.op = "host_check" =>
          \A pattern \in hosts.allowed \cup hosts.denied :
              host_matches(to_lowercase(last.arg), pattern)
                  = MatchRule(to_lowercase(last.arg), to_lowercase(pattern))
    /\ TestHostsOutcomes

\* The bare suffix "a" accepted through a wildcard pattern only.
C5_Witness ==
    /\ last.op = "host_check"
    /\ last.arg = <<"a">>
    /\ hosts.allowed = {<<"*", ".", "a">>}
    /\ hosts.denied = {<<"a", ".", "a">>}
    /\ last.res.ok

\* The hosts of the model that differ from h in letter case only.
HostVariants ==
    [h \in HostStrs |-> {h2 \in HostStrs : to_lowercase(h2) = to_lowercase(h)}]

\* The spellings of a configured pattern in other letter cases.
PatternVariants ==
    [p \in HostPatterns \cup {<<"*">>} |->
        {v \in [1..Len(p) -> HostChars \cup {"*"}] :
            to_lowercase(v) = to_lowercase(p)}]

\* C6: host matching is case-insensitive on both sides: the check of a host
\* has the outcome of the check of the same host in any other letter case,
\* and replacing a configured allow or deny pattern by another spelling of it
\* changes no outcome.
C6_HostCaseInsensitive ==
    last.op = "host_check" =>
        /\ \A h2 \in HostVariants[last.arg] :
              host_check(hosts, h2).ok = last.res.ok
        /\ \A p \in hosts.allowed : \A v \in PatternVariants[p] :
              host_check([hosts EXCEPT !.allowed = (@ \ {p}) \cup {v}],
                         last.arg).ok = last.res.ok
        /\ \A p \in hosts.denied : \A v \in PatternVariants[p] :
              host_check([hosts EXCEPT !.denied = (@ \ {p}) \cup {v}],
                         last.arg).ok = last.res.ok

\* A lowercase host accepted by an uppercase pattern alone, and by nothing
\* else.
C6_Witness ==
    /\ last.op = "host_check"
    /\ last.arg = <<"a", ".", "a">>
    /\ hosts.allowed = {<<"*", ".", "A">>}
    /\ hosts.denied = {<<"A">>}
    /\ last.res.ok

(***************************************************************************)
(* Properties of SafetyConfig (checked under SpecConfig).                  *)
(***************************************************************************)
FailedWith(kind, payload) ==
    /\ ~last.res.ok
    /\ last.res.err.kind = kind
    /\ last.res.err.payload = payload

\* C7: with process execution disabled, check_execute fails with the
\* message "process execution not allowed" for every command, members of the
\* configured allowlist included; "command not allowed" is produced only
\* with the gate on and the command outside the configured allowlist.
C7_CommandGateFirst ==
    last.op = "check_execute" =>
        /\ ~cfg.allow_process => FailedWith("NotPermitted", <<MsgProcessOff>>)
        /\ (~last.res.ok /\ last.res.err.payload[1] = MsgCommandDenied) =>
              /\ cfg.allow_process
              /\ cfg.allowed_commands.some
              /\ last.arg \notin cfg.allowed_commands.v

\* The gate is off and the command is in the configured allowlist.
C7_Witness ==
    /\ last.op = "check_execute"
    /\ ~cfg.allow_process
    /\ cfg.allowed_commands.some
    /\ last.arg \in cfg.allowed_commands.v
    /\ FailedWith("NotPermitted", <<MsgProcessOff>>)

\* C8: with process execution enabled, no configured allowlist allows every
\* command, and a configured one allows exactly its members (the literal
\* command string), so an empty configured allowlist allows nothing.
C8_CommandAllowlist ==
    (last.op = "check_execute" /\ cfg.allow_process) =>
        /\ ~cfg.allowed_commands.some => last.res.ok
        /\ cfg.allowed_commands.some =>
              (last.res.ok <=> last.arg \in cfg.allowed_commands.v)
        /\ cfg.allowed_commands = Some({}) => ~last.res.ok
        /\ can_execute(cfg, last.arg) = last.res.ok

\* /bin/ls is refused although ls is listed.
C8_Witness ==
    /\ last.op = "check_execute"
    /\ cfg.allow_process
    /\ cfg.allowed_commands.some
    /\ C_ls \in cfg.allowed_commands.v
    /\ last.arg = C_bin_ls
    /\ ~last.res.ok

PolicyCheck(safety, op, arg) ==
    CASE op \in {"fs.read", "fs.exists", "fs.list"} ->
            check_read(safety.paths, arg)
      [] op \in {"fs.write", "fs.mkdir", "fs.remove"} ->
            check_write(safety.paths, arg)
      [] op \in {"env.get", "env.set"} -> check_env(safety, arg)
      [] op \in {"net.get", "net.post"} ->
            IF extract_host(arg).ok
            THEN host_check(safety.hosts, extract_host(arg).v)
            ELSE extract_host(arg)
      [] op \in {"process.exec", "process.spawn"} ->
            check_execute(safety, arg)

MinOf(a, b) == IF a <= b THEN a ELSE b

\* C11: in the net and process adapters, a call that hands over no timeout
\* runs under default_timeout, a call that hands over t runs under
\* min(t, max_timeout), and no call that passed its policy check ends in an
\* error: the timeout is resolved, never rejected.
C11_TimeoutResolution ==
    /\ (last.op \in TimedOps /\ last.effect) =>
          /\ last.effective.some
          /\ last.effective.v =
                IF last.timeout.some
                THEN MinOf(last.timeout.v, cfg.max_timeout)
                ELSE cfg.default_timeout
    /\ (last.op \in TimedOps /\ last.pc = "done"
            /\ PolicyCheck(cfg, last.op, last.arg).ok) =>
          last.effect /\ last.res.ok

\* exec of an allowed command with 120 s asked for and max_timeout 60 s ran
\* under 60 s.
C11_Witness ==
    /\ last.op = "process.exec"
    /\ last.effect
    /\ last.timeout = SomeDuration(120)
    /\ cfg.max_timeout = 60
    /\ last.effective = SomeDuration(60)
    /\ last.res.ok

\* The durations clamp_timeout is compared on.
ClampInputs == TimeoutInputs \cup {10, 300, 3600}

\* C12: for every config, clamp_timeout is idempotent and monotonic, its
\* result is at most max_timeout and at most its argument, and it is its
\* argument when that is at most max_timeout; with a max of 60 s, 120 s is
\* clamped to 60 s and 30 s is left alone.
C12_ClampIdempotentMonotonic ==
    /\ \A x \in ClampInputs :
          /\ clamp_timeout(cfg, clamp_timeout(cfg, x)) = clamp_timeout(cfg, x)
          /\ clamp_timeout(cfg, x) <= cfg.max_timeout
          /\ clamp_timeout(cfg, x) <= x
          /\ x <= cfg.max_timeout => clamp_timeout(cfg, x) = x
          /\ \A y \in ClampInputs :
                x <= y => clamp_timeout(cfg, x) <= clamp_timeout(cfg, y)
    /\ cfg.max_timeout = 60 =>
          clamp_timeout(cfg, 120) = 60 /\ clamp_timeout(cfg, 30) = 30
    /\ last.op = "clamp_timeout" =>
          /\ last.res <= cfg.max_timeout
          /\ last.res <= last.arg
          /\ last.arg <= cfg.max_timeout => last.res = last.arg
          /\ clamp_timeout(cfg, last.res) = last.res

\* clamp_timeout(120 s) was called on a config with a max of 60 s and
\* returned 60 s.
C12_Witness ==
    /\ last.op = "clamp_timeout"
    /\ cfg.max_timeout = 60
    /\ last.arg = 120
    /\ last.res = 60

(***************************************************************************)
(* Properties of the presets (checked under SpecConfig).                   *)
(***************************************************************************)
CheckOps ==
    {"check_read", "check_write", "host_check", "check_env", "check_execute"}

\* Every check of the five capabilities on the given config, over the
\* paths, hosts, commands and names of the model, has the outcome ok.
AllChecksAre(safety, ok) ==
    /\ \A p \in PathStrs \cup CfgPathStrs :
          /\ check_read(safety.paths, p).ok = ok
          /\ check_write(safety.paths, p).ok = ok
    /\ \A h \in HostStrs \cup CfgHostStrs : host_check(safety.hosts, h).ok = ok
    /\ \A c \in Commands : check_execute(safety, c).ok = ok
    /\ \A n \in EnvNames : check_env(safety, n).ok = ok

\* C13: under SafetyConfig::strict() every check fails: check_read and
\* check_write of every path, the host check of every host, check_execute
\* of every command and check_env of every name.
C13_StrictDeniesAll ==
    cfg = SafetyConfig_strict =>
        /\ last.op \in CheckOps => ~last.res.ok
        /\ last = NoCall => AllChecksAre(cfg, FALSE)

\* check_env of PATH was refused by the strict preset.
C13_Witness ==
    /\ cfg = SafetyConfig_strict
    /\ last.op = "check_env"
    /\ last.arg = N_PATH
    /\ ~last.res.ok

\* C14: under SafetyConfig::permissive() every check succeeds: check_read
\* and check_write of every path, absolute or relative, the host check of
\* every host, check_execute of every command and check_env of every name.
C14_PermissiveAllowsAll ==
    (cfg = SafetyConfig_permissive /\ last.op \in CheckOps) => last.res.ok

\* The fields of SafetyConfig.
Fields ==
    {"paths", "hosts", "env_vars", "allow_process", "allowed_commands",
     "default_timeout", "max_timeout"}

\* The step leaves every field of cfg but f as it was.
OnlyChanged(f) ==
    /\ DOMAIN cfg' = Fields
    /\ \A g \in Fields \ {f} : cfg'[g] = cfg[g]

\* C16: each SafetyConfig builder call sets the one field it names to the
\* value it was given, whatever the field held before, and leaves every
\* other field unchanged; of two calls of the same builder the second
\* one's value is in effect (no union with the first).
C16_BuildersReplaceOneField ==
    /\ [][/\ \A p \in PathAllowlists :
                WithPaths(p) => cfg'.paths = p /\ OnlyChanged("paths")
          /\ \A h \in HostAllowlists :
                WithHosts(h) => cfg'.hosts = h /\ OnlyChanged("hosts")
          /\ \A names \in SUBSET EnvListed :
                WithEnvVars(names) =>
                    cfg'.env_vars = Some(names) /\ OnlyChanged("env_vars")
          /\ AllowAllEnv => cfg'.env_vars = None /\ OnlyChanged("env_vars")
          /\ \A allow \in BOOLEAN :
                WithAllowProcess(allow) =>
                    cfg'.allow_process = allow /\ OnlyChanged("allow_process")
          /\ \A commands \in SUBSET CommandsListed :
                WithAllowedCommands(commands) =>
                    /\ cfg'.allowed_commands = Some(commands)
                    /\ OnlyChanged("allowed_commands")
          /\ \A t \in TimeoutInputs :
                /\ WithDefaultTimeout(t) =>
                      cfg'.default_timeout = t /\ OnlyChanged("default_timeout")
                /\ WithMaxTimeout(t) =>
                      cfg'.max_timeout = t /\ OnlyChanged("max_timeout")
         ]_vars
    /\ [](last = NoCall =>
            /\ \A a, b \in SUBSET EnvListed :
                  with_env_vars(with_env_vars(cfg, a), b) = with_env_vars(cfg, b)
            /\ \A a, b \in SUBSET CommandsListed :
                  with_allowed_commands(with_allowed_commands(cfg, a), b) =
                      with_allowed_commands(cfg, b)
            /\ \A a, b \in TimeoutInputs :
                  /\ with_max_timeout(with_max_timeout(cfg, a), b) =
                        with_max_timeout(cfg, b)
                  /\ with_default_timeout(with_default_timeout(cfg, a), b) =
                        with_default_timeout(cfg, b)
            /\ \A a, b \in BOOLEAN :
                  with_allow_process(with_allow_process(cfg, a), b) =
                      with_allow_process(cfg, b))

\* SafetyConfig::new() with env_vars set to {HOME} and nothing else changed:
\* reached by with_env_vars([HOME]), also after an earlier with_env_vars.
C16_Witness ==
    /\ last = NoCall
    /\ cfg.env_vars = Some({N_HOME})
    /\ \A g \in Fields \ {"env_vars"} : cfg[g] = SafetyConfig_default[g]

(***************************************************************************)
(* Properties of the adapters (checked under SpecAdapters).                *)
(***************************************************************************)
\* C17: on SafetyConfig::new() with nothing configured but a command
\* allowlist, exec of a command of the allowlist returns Ok and exec of any
\* other command is rejected.
C17_AllowlistAlonePermitsExec ==
    \A commands \in SUBSET CommandsListed :
        (/\ cfg = with_allowed_commands(SafetyConfig_default, commands)
         /\ last.op = "process.exec"
         /\ last.pc = "done") =>
            (last.res.ok <=> last.arg \in commands)

\* The adapters that owe a policy check: fs, env get and set, net, and
\* process exec.
CheckedOps ==
    {"fs.read", "fs.exists", "fs.list", "fs.write", "fs.mkdir", "fs.remove",
     "env.get", "env.set", "net.get", "net.post", "process.exec"}

\* C18: in every call of an fs, env, net or process-exec adapter the policy
\* check comes before the effect: the effect is performed only by a step
\* of a call whose check has been made and has passed, and a call whose
\* check fails returns an error without the effect.
C18_CheckBeforeEffect ==
    /\ [](last.op \in CheckedOps =>
            /\ (last.effect \/ last.pc = "effect") =>
                  PolicyCheck(cfg, last.op, last.arg).ok
            /\ ~PolicyCheck(cfg, last.op, last.arg).ok =>
                  last.pc = "done" /\ ~last.effect /\ ~last.res.ok)
    /\ [][(last'.op \in CheckedOps /\ last'.effect) =>
            /\ last.op = last'.op
            /\ last.arg = last'.arg
            /\ last.pc = "effect"
            /\ ~last.effect
            /\ cfg' = cfg]_vars

\* A read refused under the strict preset returned an error and read
\* nothing.
C18_Witness ==
    /\ cfg = SafetyConfig_strict
    /\ last.op = "fs.read"
    /\ last.pc = "done"
    /\ ~last.effect
    /\ ~last.res.ok

\* C19: process spawn of a command performs the spawn and returns a
\* process handle only if check_execute of the command succeeds under the
\* SafetyConfig; under strict() and default() it is rejected.
C19_SpawnChecksCommand ==
    last.op = "process.spawn" =>
        /\ (last.effect \/ last.pc = "effect") =>
              check_execute(cfg, last.arg).ok
        /\ (cfg \in {SafetyConfig_strict, SafetyConfig_default}
                /\ last.pc = "done") => ~last.res.ok

(***************************************************************************)
(* Properties of the registration (checked under SpecRegistry).            *)
(***************************************************************************)
\* The module whose register function registers the adapter op.
ModuleOfOp(op) ==
    CASE op \in {"fs.read", "fs.exists", "fs.list", "fs.write", "fs.mkdir",
                 "fs.remove"} -> "fs"
      [] op \in {"env.get", "env.set"} -> "env"
      [] op \in {"net.get", "net.post"} -> "net"
      [] op \in {"process.exec", "process.spawn"} -> "process"

\* What register_all is to register: the functions of the modules of the
\* build whose enabled flag is set.
EnabledFunctions ==
    {mf \in UNION {register_module(module) : module \in features} :
        stdlib.config[mf[1]].enabled}

\* Registration follows the enabled flags.
RegisteredIffEnabled ==
    /\ stdlib = NoStdlib => registry = {}
    /\ stdlib # NoStdlib =>
          /\ registry \in {{}, EnabledFunctions}
          /\ ~stdlib.config.process.enabled =>
                registry \cap register_module("process") = {}
          /\ ~stdlib.config.net.enabled =>
                registry \cap register_module("net") = {}
          /\ (\A module \in Modules : ~stdlib.config[module].enabled) =>
                registry = {}
    /\ (stdlib # NoStdlib /\ stdlib.config = StdlibConfig_default) =>
          registry \cap
              (register_module("process") \cup register_module("net")) = {}

\* The effect of a call of one of the ops happens only with the op's module
\* enabled and its policy check passed.
GatedEffect(ops) ==
    (last.op \in ops /\ last.effect) =>
        /\ stdlib # NoStdlib
        /\ stdlib.config[ModuleOfOp(last.op)].enabled
        /\ PolicyCheck(cfg, last.op, last.arg).ok

\* C20: register_all registers the functions of a module iff the module's
\* enabled flag is set, and the effect of a registered function happens
\* only when its module is enabled and its policy check passes; with
\* StdlibConfig::default() no process or net function is registered, and
\* with every module disabled (disable_all) nothing is.
C20_TwoLayerGating ==
    /\ RegisteredIffEnabled
    /\ GatedEffect(CheckedOps \cup {"process.spawn"})

\* C15: the defaults are two layers of default-deny.  SafetyConfig::default()
\* refuses every path read and write, every host, every env name and every
\* command.  StdlibConfig::default() holds that SafetyConfig, has the
\* process and net modules disabled and fs, path, env, format, time and
\* metrics enabled, so that register_all registers fs but neither process
\* nor net; and every call of a registered fs function is refused, without
\* its effect, since no path is allowlisted.
C15_DefaultDenyLayers ==
    /\ (last = NoCall /\ stdlib = NoStdlib) =>
          AllChecksAre(SafetyConfig_default, FALSE)
    /\ StdlibConfig_default.safety = SafetyConfig_default
    /\ \A module \in Modules :
          StdlibConfig_default[module].enabled <=>
              module \notin {"process", "net"}
    /\ (stdlib # NoStdlib /\ stdlib.config = StdlibConfig_default) =>
          /\ registry # {} =>
                /\ register_module("fs") \subseteq registry
                /\ registry \cap register_module("process") = {}
                /\ registry \cap register_module("net") = {}
          /\ last.op \in CheckedOps =>
                /\ ModuleOfOp(last.op) \in {"fs", "env"}
                /\ last.pc = "done"
                /\ ~last.effect
                /\ ~last.res.ok

\* Under the default StdlibConfig the registered fs.read was called on /a
\* and refused.
C15_Witness ==
    /\ stdlib # NoStdlib
    /\ stdlib.config = StdlibConfig_default
    /\ <<"fs", "read">> \in registry
    /\ last.op = "fs.read"
    /\ last.arg = <<"/", "a">>
    /\ ~last.effect
    /\ ~last.res.ok

(***************************************************************************)
(* Properties of the net adapters (checked under SpecAdapters).            *)
(***************************************************************************)
\* The URL without its scheme.
Schemeless(url) ==
    IF strip_prefix(url, <<"h", "t", "t", "p", "s", ":", "/", "/">>).some
    THEN SubSeq(url, 9, Len(url))
    ELSE IF strip_prefix(url, <<"h", "t", "t", "p", ":", "/", "/">>).some
         THEN SubSeq(url, 8, Len(url))
         ELSE url

\* The URL names no host: nothing stands between its scheme and the first
\* '/' or ':'.
HasNoHost(url) ==
    Schemeless(url) = <<>> \/ Schemeless(url)[1] \in {"/", ":"}

\* The error a net adapter returns for a host the policy denies.
HostDenial(host) == host_function(to_string(host_not_allowed(host)))

HostPart(url) ==
    LET s == Schemeless(url)
        stops == {i \in 1..Len(s) : s[i] \in {"/", ":"}}
    IN  IF stops = {} THEN s
        ELSE SubSeq(s, 1, (CHOOSE i \in stops : \A j \in stops : i <= j) - 1)

\* C22: the host a net adapter hands to the host policy is the URL without
\* a leading https:// or http://, cut at its first '/' and ':': the call
\* goes on to the request iff the policy allows that host, a denial names
\* that host, and a requested timeout is clamped to max_timeout.
C22_ExtractedHostChecked ==
    (last.op \in {"net.get", "net.post"} /\ ~HasNoHost(last.arg)) =>
        /\ extract_host(last.arg) = [ok |-> TRUE, v |-> HostPart(last.arg)]
        /\ IF host_check(cfg.hosts, HostPart(last.arg)).ok
           THEN last.res.ok /\ (last.pc = "effect" \/ last.effect)
           ELSE /\ last.pc = "done"
                /\ ~last.effect
                /\ last.res = Err(HostDenial(HostPart(last.arg)))
        /\ (last.effect /\ last.timeout.some) =>
              last.effective =
                  SomeDuration(MinOf(last.timeout.v, cfg.max_timeout))

\* net get of https://A.a:8 was refused for the host A.a, port left out.
C22_Witness ==
    /\ last.op = "net.get"
    /\ last.arg =
          <<"h", "t", "t", "p", "s", ":", "/", "/", "A", ".", "a", ":", "8">>
    /\ last.res = Err(HostDenial(<<"A", ".", "a">>))

(***************************************************************************)
(* Concurrent checks on a shared SafetyConfig (checked under SpecShared).  *)
(***************************************************************************)
\* The outcome of the check run alone on the config.
AloneResult(safety, op, arg) ==
    CASE op = "host_check" -> host_check(safety.hosts, arg)
      [] op = "check_read" -> check_read(safety.paths, arg)
      [] op = "check_write" -> check_write(safety.paths, arg)

\* C23: no step of a check running concurrently with others changes the
\* shared SafetyConfig, and every check that finishes, under every
\* interleaving with the other threads and every iteration order of the
\* policy sets, has the outcome the check has when run alone on the config
\* and the input.
C23_SharedChecksIndependent ==
    [][/\ cfg' = cfg
       /\ \A t \in Threads :
             threads'[t].pc = "done" =>
                threads'[t].res = AloneResult(cfg, threads'[t].op,
                                              threads'[t].arg)]_vars

\* Two checks have finished side by side, one denied and one allowed, the
\* allowed one on an input that two entries of the allow set match.
C23_Witness ==
    /\ threads[1].pc = "done" /\ ~threads[1].res.ok
    /\ threads[2].pc = "done" /\ threads[2].res.ok
    /\ Cardinality({e \in policy_set(cfg, threads[2].op, "allow") :
                       entry_matches(threads[2].op, threads[2].arg, e)}) > 1
    /\ Cardinality(policy_set(cfg, threads[1].op, "allow")) > 1

(***************************************************************************)
(* MetricsRegistry counters (checked under SpecMetrics).                   *)
(***************************************************************************)
\* No thread is inside a call other than t.
OthersIdle(t) == \A u \in Threads \ {t} : threads[u] = Idle

\* C30: counters lose no update: once every counter_inc call has finished,
\* counter_get of a name is the sum of the values passed to counter_inc for
\* it, whatever the interleaving, also when calls raced to create the
\* counter; a counter_get call that holds the read lock when no other call
\* runs loads that sum; and counter_get of a name never incremented is 0.
C30_CountersLoseNoUpdate ==
    /\ (\A t \in Threads : threads[t] = Idle) =>
          \A n \in MetricNames : counter_get(metrics.counters, n) = issued[n]
    /\ \A t \in Threads :
          (/\ threads[t].pc = "get"
           /\ threads[t].op = "counter_get"
           /\ OthersIdle(t)) =>
             counter_get(metrics.counters, threads[t].name)
                = issued[threads[t].name]
    /\ \A n \in MetricNames :
          issued[n] = 0 => counter_get(metrics.counters, n) = 0

\* Two counter_inc calls raced to create the same counter: both found it
\* missing and released the read lock, thread 1 has inserted it under the
\* write lock, and thread 2 waits for the write lock.
C30_Witness ==
    /\ threads[1].pc = "unlock" /\ threads[1].op = "counter_inc"
    /\ metrics.writer = {1}
    /\ threads[2].pc = "write" /\ threads[2].name = threads[1].name
    /\ counter_get(metrics.counters, threads[1].name) = threads[1].value

(***************************************************************************)
(* The enhanced HTTP client (checked under SpecAdapters).                  *)
(***************************************************************************)
\* The URL a call of the enhanced HTTP client is made on.
UrlOf(call) ==
    IF call.op = "net_http.request" THEN call.arg[2] ELSE call.arg

\* The call in flight is a call of the enhanced HTTP client on a URL.
HttpClientCall ==
    \/ last.op = "net_http.check_request_safety"
    \/ last.op = "net_http.request" /\ Len(last.arg) >= 2

\* C25: check_request_safety fails, and net_http request returns no
\* successful response, for a URL whose host the host policy of the config
\* denies.
C25_HttpClientChecksHost ==
    (/\ HttpClientCall
     /\ extract_host(UrlOf(last)).ok
     /\ ~host_check(cfg.hosts, extract_host(UrlOf(last)).v).ok) =>
        ~last.res.ok

(***************************************************************************)
(* Relative paths and ".." (checked under SpecPaths).                      *)
(***************************************************************************)
\* The path does not start at the root directory.
IsRelative(path) == Len(path) = 0 \/ path[1] # "/"

\* The stored prefix starts at the root directory.
IsAbsolutePrefix(prefix) == Len(prefix) > 0 /\ prefix[1] = RootDir

\* C24: a relative path is compared as it is: when every prefix of the read
\* and write sets is absolute, check_read and check_write fail for every
\* relative path.
C24_RelativeNeverCoerced ==
    (/\ IsPathCheck
     /\ IsRelative(last.arg)
     /\ \A prefix \in paths.read \cup paths.write : IsAbsolutePrefix(prefix)) =>
        ~last.res.ok

\* The relative path a is refused although /a may be read and nothing is
\* denied.
C24_Witness ==
    /\ last.op = "check_read"
    /\ last.arg = <<"a">>
    /\ PathBuf(<<"/", "a">>) \in paths.read
    /\ \A prefix \in paths.read \cup paths.write : IsAbsolutePrefix(prefix)
    /\ paths.deny = {}
    /\ ~last.res.ok

\* The path resolved as a file system without links resolves it.
Resolved(path) == Resolve(Components(path), 1, <<>>)

\* The set the check of the call in flight looks its path up in.
AllowSetOf(call) == IF call.op = "check_read" THEN paths.read ELSE paths.write

\* The resolved path has some prefix of the set as leading components.
ResolvesUnder(path, set) ==
    \E prefix \in set :
        /\ Len(prefix) <= Len(Resolved(path))
        /\ SubSeq(Resolved(path), 1, Len(prefix)) = prefix

\* C27: containment is lexical, ".." is not resolved: a path with ".."
\* components that has an allowed prefix as its leading components passes
\* the check when nothing is denied, also when it resolves outside every
\* allowed prefix; and a deny entry is not applied to a path that is under
\* it only once its ".." components are resolved.
C27_LexicalContainment ==
    (/\ IsPathCheck
     /\ ParentDir \in {Components(last.arg)[i] :
                          i \in 1..Len(Components(last.arg))}
     /\ UnderSome(last.arg, AllowSetOf(last))) =>
        /\ paths.deny = {} => last.res.ok
        /\ ~UnderSome(last.arg, paths.deny) => last.res.ok

\* A read of P/.. is allowed by allow_read(P) with nothing denied, although
\* the path resolves outside every prefix that may be read.
C27_Witness ==
    /\ last.op = "check_read"
    /\ last.res.ok
    /\ paths.deny = {}
    /\ \E i \in 1..Len(Components(last.arg)) :
          Components(last.arg)[i] = ParentDir
    /\ ~ResolvesUnder(last.arg, paths.read)

\* A read is allowed although the path resolves to a place under a denied
\* prefix.
C27_DenyNotApplied ==
    /\ last.op = "check_read"
    /\ last.res.ok
    /\ ResolvesUnder(last.arg, paths.deny)

(***************************************************************************)
(* Boundaries (checked under SpecLists) and monotonicity (checked under    *)
(* SpecBuilders) of the allowlists.                                        *)
(***************************************************************************)
P_tmp == <<"/", "t", "m", "p">>
P_tmpfoo_x == <<"/", "t", "m", "p", "f", "o", "o", "/", "x">>
H_eviltrusted_org ==
    <<"e","v","i","l","t","r","u","s","t","e","d",".","o","r","g">>

\* C28: matching respects boundaries: a path check passes only on a path
\* that has an allowed prefix as its leading components, a stored prefix
\* covers the checked path only by leading components, and an allowed path
\* is refused only under a denied prefix; a host check passes only on a host
\* that an allowed pattern matches by whole labels ("*.S" needs the dot
\* before S or the host S itself).  allow_read("/tmp") does not allow
\* "/tmpfoo/x", and "*.trusted.org" does not match "eviltrusted.org".
C28_BoundariesRespected ==
    /\ IsPathCheck =>
          /\ last.res.ok => UnderSome(last.arg, AllowSetOf(last))
          /\ \A prefix \in paths.read \cup paths.write \cup paths.deny :
                path_starts_with(last.arg, prefix) => IsUnder(last.arg, prefix)
          /\ (UnderSome(last.arg, AllowSetOf(last)) /\ ~last.res.ok) =>
                UnderSome(last.arg, paths.deny)
    /\ last.op = "host_check" =>
          /\ last.res.ok =>
                \E pattern \in hosts.allowed :
                    MatchRule(to_lowercase(last.arg), to_lowercase(pattern))
          /\ \A pattern \in hosts.allowed \cup hosts.denied :
                host_matches(to_lowercase(last.arg), pattern) =>
                    MatchRule(to_lowercase(last.arg), to_lowercase(pattern))
    /\ ~check_read(allow_read(PathAllowlist_none, P_tmp), P_tmpfoo_x).ok
    /\ ~host_check(host_allow(HostAllowlist_none, H_wild_trusted_org),
                   H_eviltrusted_org).ok

\* /aa is refused although /a may be read and nothing is denied.
C28_Witness ==
    /\ last.op = "check_read"
    /\ last.arg = <<"/", "a", "a">>
    /\ PathBuf(<<"/", "a">>) \in paths.read
    /\ paths.deny = {}
    /\ ~last.res.ok

\* The host aa is refused although *.a is allowed and nothing is denied.
C28_HostWitness ==
    /\ last.op = "host_check"
    /\ last.arg = <<"a", "a">>
    /\ <<"*", ".", "a">> \in hosts.allowed
    /\ hosts.denied = {}
    /\ ~last.res.ok

\* The builder calls of the two allowlists.
PathBuilders == {"allow_read", "allow_write", "allow_rw", "deny"}
ApplyPath(self, builder, p) ==
    CASE builder = "allow_read" -> allow_read(self, p)
      [] builder = "allow_write" -> allow_write(self, p)
      [] builder = "allow_rw" -> allow_rw(self, p)
      [] builder = "deny" -> deny(self, p)
ApplyHost(self, builder, h) ==
    IF builder = "allow" THEN host_allow(self, h) ELSE host_deny(self, h)

\* Nothing allowed before is denied after; nothing is allowed after that was
\* denied before.
PathsKeepAllowed(before, after) ==
    \A p \in PathStrs :
        /\ can_read(before, p) => can_read(after, p)
        /\ can_write(before, p) => can_write(after, p)
PathsKeepDenied(before, after) ==
    \A p \in PathStrs :
        /\ can_read(after, p) => can_read(before, p)
        /\ can_write(after, p) => can_write(before, p)
HostsKeepAllowed(before, after) ==
    \A h \in HostStrs : can_access(before, h) => can_access(after, h)
HostsKeepDenied(before, after) ==
    \A h \in HostStrs : can_access(after, h) => can_access(before, h)

\* C29: policy construction is monotone: a builder call that adds a deny
\* entry turns no denied path or host into an allowed one, a builder call
\* that adds an allow entry turns no allowed path or host into a denied one,
\* and two builder calls give the same allowlist, hence the same decisions,
\* in either order.
C29_ConstructionMonotone ==
    /\ [](last = NoCall =>
            /\ \A b1, b2 \in PathBuilders, p, q \in PrefixStrs :
                  ApplyPath(ApplyPath(paths, b1, p), b2, q)
                     = ApplyPath(ApplyPath(paths, b2, q), b1, p)
            /\ \A b1, b2 \in {"allow", "deny"}, h, g \in HostPatterns :
                  ApplyHost(ApplyHost(hosts, b1, h), b2, g)
                     = ApplyHost(ApplyHost(hosts, b2, g), b1, h))
    /\ [][/\ paths'.deny # paths.deny => PathsKeepDenied(paths, paths')
          /\ (paths'.read # paths.read \/ paths'.write # paths.write) =>
                PathsKeepAllowed(paths, paths')
          /\ hosts'.denied # hosts.denied => HostsKeepDenied(hosts, hosts')
          /\ hosts'.allowed # hosts.allowed =>
                HostsKeepAllowed(hosts, hosts')]_vars

\* An allowlist built by an allow call and a deny call on overlapping
\* prefixes: /a/aa may not be read because of the deny entry, /a may be.
C29_Witness ==
    /\ last = NoCall
    /\ PathBuf(<<"/", "a">>) \in paths.read
    /\ PathBuf(<<"/", "a", "/", "a", "a">>) \in paths.deny
    /\ can_read(paths, <<"/", "a">>)
    /\ ~can_read(paths, <<"/", "a", "/", "a", "a">>)

(***************************************************************************)
(* The effective timeout and max_timeout (checked under SpecAdapters).     *)
(***************************************************************************)
\* C26: the timeout net get, net post and process exec run their effect
\* under never exceeds max_timeout of the config, whether the caller hands
\* over a timeout or none, for every config built from a preset by
\* with_default_timeout and with_max_timeout calls.
C26_EffectiveWithinMax ==
    (last.op \in TimedOps /\ last.effect) =>
        last.effective.v <= cfg.max_timeout

\* The part of C26 on calls that hand over a timeout.
SuppliedWithinMax ==
    (last.op \in TimedOps /\ last.effect /\ last.timeout.some) =>
        last.effective.v <= cfg.max_timeout

====
